---- MODULE Spec2Model ----
(***************************************************************************)
(* Four-tier adaptive memory subsystem: ShortTermMemory, LongTermMemory,   *)
(* EpisodicMemory, SemanticMemory and the MemoryManager coordinator.       *)
(*                                                                         *)
(* Conventions.  A Python dict is a function whose DOMAIN is the set of    *)
(* keys present.  An Optional value is a sequence: <<>> is None and <<v>>  *)
(* is the value v.  Time is the wall clock (datetime.now()) in seconds.    *)
(***************************************************************************)
EXTENDS Integers, Sequences, FiniteSets, TLC

VARIABLES
    now,            \* wall clock, seconds
    redis_client,   \* ShortTermMemory.redis_client is set (Redis backing)
    memory_store,   \* ShortTermMemory.memory_store (in-process backing)
    redis_db,       \* the Redis server's keyspace (networked backing)
    last_store,     \* history: per key, the latest store() since the last delete
    connection_pool,    \* LongTermMemory.connection_pool is set (PostgreSQL)
    lt_memory_store,    \* LongTermMemory.memory_store (in-process backing)
    customer_profiles,  \* the customer_profiles table
    agent_actions_log,      \* the agent_actions_log table
    handoff_context_log,    \* the handoff_context_log table
    active_connections, \* WebSocketManager.active_connections: agent -> websocket
    agent_metadata,     \* WebSocketManager.agent_metadata
    message_queue,      \* WebSocketManager.message_queue: agent -> list of messages
    ws_sent,            \* history: per websocket, the messages passed to send_text
    ws_task,            \* the WebSocketManager calls in progress, by task
    messages_sent,      \* history: number of send_to_agent calls so far
    queued,             \* history: per agent, the messages send_to_agent queued
    episodes,       \* EpisodicMemory.memory_store (in-process backing)
    graph,          \* SemanticMemory.graph (NetworkX fallback)
    triples_stored, \* history: per (subject, predicate, object), the weight of the
                    \* latest store_triple that returned True
    proc,           \* per caller: the coordinator call in progress and its locals
    maint,          \* the run_memory_consolidation task
    running,        \* the task that holds the event loop, if any
    calls,          \* coordinator calls issued so far
    sst_calls,      \* history: per conversation, store_short_term calls returned
    clean,          \* history: per conversation, only sequential live stores so far
    call_writes,    \* history: per conversation, long-term writes made by its calls
    ret             \* the return value of the operation that ran last

(***************************************************************************)
(* Bounds of the model.                                                    *)
(***************************************************************************)
TimeStep == 2400        \* seconds the clock advances in one Tick
MaxTicks == 2           \* the clock stops after this many ticks
MaxCalls == 5           \* coordinator calls issued in one behaviour
MaxCycles == 1          \* maintenance cycles run in one behaviour
MaxEpisodes == 2        \* episodes held by the episodic store

MaxNow == TimeStep * MaxTicks

NoneVal == <<>>
Some(v) == <<v>>
IsNone(o) == o = <<>>
TheValue(o) == o[1]

ConversationIds == {"c1", "c2"}

(***************************************************************************)
(* Context values.  "datetime(2024-01-01)" stands for a Python object that *)
(* json.dumps cannot encode natively: default=str writes its str().        *)
(***************************************************************************)
PyStr(v) == IF v = "datetime(2024-01-01)" THEN "2024-01-01 00:00:00" ELSE v

CtxEmail == [preferred_channel |-> "email"]
CtxSms == [preferred_channel |-> "sms", interests |-> "ai", lead_source |-> "web"]
CtxDate == [contact_time |-> "datetime(2024-01-01)"]

\* json.dumps(data, default=str): the serialized text, written as the value
\* it decodes to, tagged so that it is not the data itself.
json_dumps(data) ==
    [json |-> IF "context" \in DOMAIN data
              THEN [data EXCEPT !.context =
                       [k \in DOMAIN data.context |-> PyStr(data.context[k])]]
              ELSE data]

\* json.loads(text)
json_loads(text) == text.json

JsonRepresentable(data) == json_loads(json_dumps(data)) = data

\* `if data:` on a dict -- the empty dict is falsy
DictTruthy(d) == d # <<>>

\* `if ttl:` -- None and 0 are falsy
Truthy(ttl) == ttl # NoneVal /\ TheValue(ttl) # 0

DictSet(d, key, v) == [k \in DOMAIN d \cup {key} |-> IF k = key THEN v ELSE d[k]]
DictDel(d, keys) == [k \in DOMAIN d \ keys |-> d[k]]

(***************************************************************************)
(* ShortTermMemory, in-process backing.                                    *)
(***************************************************************************)
MemEntry(data, ttl, t) ==
    [data |-> json_dumps(data),
     expires_at |-> IF Truthy(ttl) THEN Some(t + TheValue(ttl)) ELSE NoneVal]

\* entry["expires_at"] and datetime.now() > entry["expires_at"]
MemExpired(entry, t) ==
    entry.expires_at # NoneVal /\ t > TheValue(entry.expires_at)

MemStoreEntryKeep(ms, key, data, ttl, t) ==
    IF key \in DOMAIN ms THEN ms ELSE DictSet(ms, key, MemEntry(data, ttl, t))

MemStoreEntry(ms, key, data, ttl, t) == DictSet(ms, key, MemEntry(data, ttl, t))

MemGetResult(ms, key, t) ==
    IF key \notin DOMAIN ms THEN NoneVal
    ELSE IF MemExpired(ms[key], t) THEN NoneVal
    ELSE Some(json_loads(ms[key].data))

MemGetStoreNoEvict(ms, key, t) == ms

MemGetStore(ms, key, t) ==
    IF key \in DOMAIN ms /\ MemExpired(ms[key], t) THEN DictDel(ms, {key}) ELSE ms

MemExpiredKeys(ms, t) == {k \in DOMAIN ms : MemExpired(ms[k], t)}

MemActive(ms, t) ==
    [k \in {x \in DOMAIN ms : ~MemExpired(ms[x], t)} |-> json_loads(ms[k].data)]

(***************************************************************************)
(* ShortTermMemory, Redis backing: SETEX / SET / GET / DEL / KEYS.  The    *)
(* server drops a key once its time to live has passed.                    *)
(***************************************************************************)
RedisLive(entry, t) ==
    entry.expires_at = NoneVal \/ t < TheValue(entry.expires_at)

RedisPurge(db, t) == DictDel(db, {k \in DOMAIN db : ~RedisLive(db[k], t)})

\* a SET that leaves an existing key as it is
RedisSetKeep(db, key, data, ttl, t) ==
    IF key \in DOMAIN RedisPurge(db, t) THEN RedisPurge(db, t)
    ELSE DictSet(RedisPurge(db, t), key, MemEntry(data, ttl, t))

\* setex(key, ttl, text) when ttl is truthy, else set(key, text)
RedisSet(db, key, data, ttl, t) == DictSet(RedisPurge(db, t), key, MemEntry(data, ttl, t))

RedisGetResult(db, key, t) ==
    IF key \in DOMAIN RedisPurge(db, t)
    THEN Some(json_loads(db[key].data)) ELSE NoneVal

\* keys("*"), then get(key) for each key, kept `if data:`
RedisActive(db, t) ==
    [k \in {x \in DOMAIN RedisPurge(db, t) : DictTruthy(json_loads(db[x].data))} |->
        json_loads(db[k].data)]

(***************************************************************************)
(* ShortTermMemory operations on the state.                                *)
(***************************************************************************)
\* ShortTermMemory.get(key): the value returned at time t
ShortTermGet(key, t) ==
    IF redis_client THEN RedisGetResult(redis_db, key, t)
    ELSE MemGetResult(memory_store, key, t)

\* ShortTermMemory.get(key): its effect on the backing
ShortTermGetEffect(key) ==
    IF redis_client
    THEN /\ redis_db' = RedisPurge(redis_db, now)
         /\ UNCHANGED memory_store
    ELSE /\ memory_store' = MemGetStore(memory_store, key, now)
         /\ UNCHANGED redis_db

\* ShortTermMemory.store(key, data, ttl): always returns True here
ShortTermStoreEffect(key, data, ttl) ==
    /\ IF redis_client
       THEN /\ redis_db' = RedisSet(redis_db, key, data, ttl, now)
            /\ UNCHANGED memory_store
       ELSE /\ memory_store' = MemStoreEntry(memory_store, key, data, ttl, now)
            /\ UNCHANGED redis_db
    /\ last_store' = [last_store EXCEPT ![key] =
                          Some([data |-> data, ttl |-> ttl, at |-> now])]

(***************************************************************************)
(* EpisodicMemory, in-process backing with the hash-derived embedding.     *)
(* An episode is a dict: a record holding the fields that are present.     *)
(* Its context is the sequence of its (key, value) pairs in insertion      *)
(* order.  Scores are in hundredths.                                       *)
(***************************************************************************)
DictGet(d, k, default) == IF k \in DOMAIN d THEN d[k] ELSE default

\* stands for None where a list is expected: falsy, and a `for` over it raises
NotIterable == <<"None">>

RECURSIVE Join(_, _)
\* sep.join(parts)
Join(parts, sep) ==
    IF parts = <<>> THEN ""
    ELSE IF Len(parts) = 1 THEN parts[1]
    ELSE parts[1] \o sep \o Join(Tail(parts), sep)

\* EpisodicMemory._episode_to_text
_episode_to_text(episode) ==
    LET context == DictGet(episode, "context", <<>>)
        actions == DictGet(episode, "action_sequence", <<>>)
        scenario_part ==
            IF "scenario" \in DOMAIN episode
            THEN <<"scenario: " \o episode.scenario>> ELSE <<>>
        context_part ==
            [i \in 1..Len(context) |-> context[i][1] \o ": " \o context[i][2]]
        action_part ==
            IF actions # <<>> /\ actions # NotIterable
            THEN <<"actions: " \o Join(actions, " ")>> ELSE <<>>
    IN Join(scenario_part \o context_part \o action_part, " | ")

\* MemoryManager._context_to_search_text, for string values
_context_to_search_text(context) ==
    Join([i \in 1..Len(context) |-> context[i][1] \o ": " \o context[i][2]], " ")

\* hashlib.md5(text.encode()).digest(): the 16 bytes, most significant first
md5_digest(text) ==
    CASE text = "scenario: demo_request | lead_source: web | outcome: converted | actions: qualify schedule_demo" ->
           <<178, 97, 225, 29, 250, 95, 239, 180, 84, 152, 226, 134, 76, 128, 44, 65>>
      [] text = "scenario: cold_call" ->
           <<172, 9, 234, 123, 185, 69, 148, 6, 228, 160, 194, 242, 213, 241, 27, 56>>
      [] text = "lead_source: web" ->
           <<79, 228, 17, 118, 86, 6, 90, 148, 226, 11, 135, 117, 8, 242, 169, 164>>
      [] text = "scenario: demo_request lead_source: web" ->
           <<79, 106, 193, 237, 99, 165, 229, 43, 112, 53, 244, 193, 1, 81, 99, 136>>
      [] text = "scenario: demo_request | outcome: converted | lead_source: web | actions: qualify schedule_demo" ->
           <<149, 179, 7, 134, 149, 42, 131, 26, 8, 136, 121, 12, 42, 99, 194, 176>>
      [] text = "scenario: follow_up | actions: follow_up" ->
           <<184, 104, 55, 20, 156, 74, 232, 139, 90, 234, 43, 81, 59, 116, 87, 210>>

EmbeddingDim == 384
ByteRange == 256
ByteScale == 255

Pow2(n) == <<1, 2, 4, 8, 16, 32, 64, 128, 256>>[n + 1]

\* bits 8q .. 8q+7 of hash_int; 0 above the hash's width
HashByte(digest, q) == IF q < Len(digest) THEN digest[Len(digest) - q] ELSE 0

\* (hash_int >> i) % 256
ShiftedByte(digest, i) ==
    LET q == i \div 8
        r == i % 8
    IN ((HashByte(digest, q) \div Pow2(r)) + HashByte(digest, q + 1) * Pow2(8 - r))
           % ByteRange

\* a hash that depends on the store as well as on the text
_create_embedding_salted(text) ==
    LET digest == md5_digest(text)
    IN [i \in 1..EmbeddingDim |-> 2 * ShiftedByte(digest, i - 1 + Len(episodes)) - ByteScale]

\* EpisodicMemory._create_embedding without an embedding model.  Component i is
\* b / 255.0 - 0.5 with b = (hash_int >> i) % 256; it is kept as the integer
\* 2b - 255, its value in units of 1 / (2 * 255).
_create_embedding(text) ==
    LET digest == md5_digest(text)
    IN [i \in 1..EmbeddingDim |-> 2 * ShiftedByte(digest, i - 1) - ByteScale]

RECURSIVE SumProducts(_, _, _, _)
\* a[lo] * b[lo] + ... + a[hi] * b[hi]
SumProducts(a, b, lo, hi) ==
    IF lo > hi THEN 0
    ELSE IF hi - lo >= 7
    THEN a[lo] * b[lo] + a[lo + 1] * b[lo + 1] + a[lo + 2] * b[lo + 2]
             + a[lo + 3] * b[lo + 3] + a[lo + 4] * b[lo + 4] + a[lo + 5] * b[lo + 5]
             + a[lo + 6] * b[lo + 6] + a[lo + 7] * b[lo + 7]
             + SumProducts(a, b, lo + 8, hi)
    ELSE a[lo] * b[lo] + SumProducts(a, b, lo + 1, hi)

\* sum(x * y for x, y in zip(a, b))
DotProduct(a, b) == SumProducts(a, b, 1, IF Len(a) < Len(b) THEN Len(a) ELSE Len(b))

\* cosine_similarity(a, b): the real number dot / sqrt(sqa * sqb), kept exact
\* as its three integers; 0 when a magnitude is 0.  The code computes it in
\* floating point, by one fixed sequence of operations: equal vectors give
\* equal floats, and the similarities compared here differ by far more than
\* the rounding error.
cosine_similarity(a, b) ==
    LET dot == DotProduct(a, b)
        sqa == DotProduct(a, a)
        sqb == DotProduct(b, b)
    IN IF sqa = 0 \/ sqb = 0 THEN [dot |-> 0, sqa |-> 1, sqb |-> 1]
       ELSE [dot |-> dot, sqa |-> sqa, sqb |-> sqb]

(* Exact comparison of similarities: natural numbers of any size as        *)
(* little-endian sequences of limbs.                                       *)
LimbBase == 64 * 64

BigFromInt(n) == <<n % LimbBase, (n \div LimbBase) % LimbBase, n \div (LimbBase * LimbBase)>>

RECURSIVE BigCarry(_, _)
BigCarry(limbs, carry) ==
    IF limbs = <<>>
    THEN IF carry = 0 THEN <<>> ELSE <<carry % LimbBase>> \o BigCarry(<<>>, carry \div LimbBase)
    ELSE <<(limbs[1] + carry) % LimbBase>>
             \o BigCarry(Tail(limbs), (limbs[1] + carry) \div LimbBase)

BigMul(a, b) ==
    LET Coef(k) ==
            LET S[i \in 0..Len(a)] ==
                    IF i = 0 THEN 0
                    ELSE S[i - 1] + (IF k - i + 1 \in 1..Len(b) THEN a[i] * b[k - i + 1] ELSE 0)
            IN S[Len(a)]
    IN BigCarry([k \in 1..(Len(a) + Len(b) - 1) |-> Coef(k)], 0)

RECURSIVE BigTrim(_)
BigTrim(a) == IF a # <<>> /\ a[Len(a)] = 0 THEN BigTrim(SubSeq(a, 1, Len(a) - 1)) ELSE a

RECURSIVE BigLessSameLen(_, _)
BigLessSameLen(a, b) ==
    IF a = <<>> THEN FALSE
    ELSE IF a[Len(a)] # b[Len(b)] THEN a[Len(a)] < b[Len(b)]
    ELSE BigLessSameLen(SubSeq(a, 1, Len(a) - 1), SubSeq(b, 1, Len(b) - 1))

BigLess(a, b) ==
    LET x == BigTrim(a)
        y == BigTrim(b)
    IN IF Len(x) # Len(y) THEN Len(x) < Len(y) ELSE BigLessSameLen(x, y)

Abs(n) == IF n < 0 THEN -n ELSE n

\* |x|^2 and |y|^2 over the common denominator x.sqa * x.sqb * y.sqa * y.sqb
SimSquare(x, y) ==
    BigMul(BigMul(BigFromInt(Abs(x.dot)), BigFromInt(Abs(x.dot))),
           BigMul(BigFromInt(y.sqa), BigFromInt(y.sqb)))

\* x < y for two similarities
SimLess(x, y) ==
    IF x.dot < 0 /\ y.dot >= 0 THEN TRUE
    ELSE IF x.dot >= 0 /\ y.dot < 0 THEN FALSE
    ELSE IF x.dot >= 0 THEN BigLess(SimSquare(x, y), SimSquare(y, x))
    ELSE BigLess(SimSquare(y, x), SimSquare(x, y))

\* EpisodicMemory.store, memory fallback: the store after the append
EpisodicStore(store, episode_id, episode) ==
    Append(store, [id |-> episode_id,
                   embedding |-> _create_embedding(_episode_to_text(episode)),
                   text |-> _episode_to_text(episode),
                   metadata |-> episode])

\* all(metadata.get(k) == v for k, v in filters.items() if k in metadata)
PassesFilters(metadata, filters) ==
    \A k \in DOMAIN filters : k \in DOMAIN metadata => metadata[k] = filters[k]

RECURSIVE InsertAscending(_, _)
InsertAscending(sorted, x) ==
    IF sorted = <<>> THEN <<x>>
    ELSE IF SimLess(x.similarity_score, sorted[1].similarity_score) THEN <<x>> \o sorted
    ELSE <<sorted[1]>> \o InsertAscending(Tail(sorted), x)

RECURSIVE InsertDescending(_, _)
\* list.sort(key=similarity_score, reverse=True) is stable: x goes behind
\* every element that is not smaller
InsertDescending(sorted, x) ==
    IF sorted = <<>> THEN <<x>>
    ELSE IF SimLess(sorted[1].similarity_score, x.similarity_score) THEN <<x>> \o sorted
    ELSE <<sorted[1]>> \o InsertDescending(Tail(sorted), x)

RECURSIVE SortPrefix(_, _)
\* the first n elements of list, sorted
SortPrefix(list, n) ==
    IF n = 0 THEN <<>> ELSE InsertDescending(SortPrefix(list, n - 1), list[n])

SortBySimilarity(list) == SortPrefix(list, Len(list))

Take(list, n) == SubSeq(list, 1, IF Len(list) < n THEN Len(list) ELSE n)

SelectSeqIdx(list, Keep(_)) ==
    LET F[i \in 0..Len(list)] ==
            IF i = 0 THEN <<>>
            ELSE IF Keep(list[i]) THEN Append(F[i - 1], list[i]) ELSE F[i - 1]
    IN F[Len(list)]

\* EpisodicMemory.search_similar, memory fallback
search_similar(store, query_text, filters, limit) ==
    LET query_embedding == _create_embedding(query_text)
        Keep(stored) == DOMAIN filters = {} \/ PassesFilters(stored.metadata, filters)
        kept == SelectSeqIdx(store, Keep)
        similarities ==
            [i \in 1..Len(kept) |->
                DictSet(kept[i].metadata, "similarity_score",
                        cosine_similarity(query_embedding, kept[i].embedding))]
    IN Take(SortBySimilarity(similarities), limit)

RecentSuccessScore == 70

RECURSIVE InsertByTimestamp(_, _)
InsertByTimestamp(sorted, x) ==
    IF sorted = <<>> THEN <<x>>
    ELSE IF DictGet(sorted[1], "timestamp", 0) < DictGet(x, "timestamp", 0)
         THEN <<x>> \o sorted
    ELSE <<sorted[1]>> \o InsertByTimestamp(Tail(sorted), x)

RECURSIVE SortByTimestamp(_)
SortByTimestamp(list) ==
    IF list = <<>> THEN <<>>
    ELSE InsertByTimestamp(SortByTimestamp(SubSeq(list, 1, Len(list) - 1)), list[Len(list)])

\* EpisodicMemory.get_recent_successes, memory fallback
get_recent_successes(store, limit) ==
    LET Keep(stored) == DictGet(stored.metadata, "outcome_score", 0) >= RecentSuccessScore
        kept == SelectSeqIdx(store, Keep)
    IN Take(SortByTimestamp([i \in 1..Len(kept) |-> kept[i].metadata]), limit)

(***************************************************************************)
(* SemanticMemory on its NetworkX fallback (driver is None).  A DiGraph    *)
(* keeps one edge per (source, target); nodes and each node's successors   *)
(* are kept in insertion order.  bool(graph) is len(graph) > 0.            *)
(***************************************************************************)
EmptyGraph == [nodes |-> <<>>, succ |-> <<>>, attr |-> <<>>]

SeqToSet(seq) == {seq[i] : i \in 1..Len(seq)}

\* `if self.graph:` -- nx.DiGraph defines __len__, the number of nodes
GraphTruthy(g) == Len(g.nodes) > 0

has_node(g, n) == n \in SeqToSet(g.nodes)

add_node(g, n) ==
    IF has_node(g, n) THEN g
    ELSE [g EXCEPT !.nodes = Append(@, n), !.succ = DictSet(@, n, <<>>)]

\* DiGraph.add_edge(u, v, **attrs): an existing edge keeps its place and its
\* other attributes, and takes the new values
add_edge(g, u, v, attrs) ==
    LET g2 == add_node(add_node(g, u), v)
        old == IF <<u, v>> \in DOMAIN g2.attr THEN g2.attr[<<u, v>>] ELSE <<>>
        merged == [k \in DOMAIN old \cup DOMAIN attrs |->
                      IF k \in DOMAIN attrs THEN attrs[k] ELSE old[k]]
    IN [g2 EXCEPT !.succ = IF v \in SeqToSet(g2.succ[u]) THEN @
                           ELSE DictSet(@, u, Append(g2.succ[u], v)),
                  !.attr = DictSet(@, <<u, v>>, merged)]

\* SemanticMemory._initialize_default_knowledge: the relationships it adds
DefaultRelationships ==
    << <<"email_marketing", "lead_nurturing", "enables", 90>>,
       <<"social_media", "engagement", "drives", 80>>,
       <<"content_marketing", "lead_nurturing", "supports", 80>>,
       <<"paid_search", "retargeting", "enables", 70>>,
       <<"lead_nurturing", "conversion", "leads_to", 80>>,
       <<"personalization", "engagement", "improves", 90>>,
       <<"segmentation", "conversion", "optimizes", 70>>,
       <<"retargeting", "conversion", "increases", 60>>,
       <<"technology", "personalization", "prefers", 80>>,
       <<"financial_services", "content_marketing", "responds_to", 70>>,
       <<"healthcare", "email_marketing", "suitable_for", 60>> >>

DefaultConcepts ==
    <<"email_marketing", "social_media", "content_marketing", "paid_search",
      "organic_search", "lead_nurturing", "retargeting", "personalization",
      "segmentation", "conversion", "engagement", "awareness", "technology",
      "financial_services", "healthcare", "retail">>

_initialize_default_knowledge(g) ==
    IF ~GraphTruthy(g) THEN g
    ELSE LET N[i \in 0..Len(DefaultConcepts)] ==
                 IF i = 0 THEN g ELSE add_node(N[i - 1], DefaultConcepts[i])
             E[i \in 0..Len(DefaultRelationships)] ==
                 IF i = 0 THEN N[Len(DefaultConcepts)]
                 ELSE add_edge(E[i - 1], DefaultRelationships[i][1],
                               DefaultRelationships[i][2],
                               [type |-> DefaultRelationships[i][3],
                                strength |-> DefaultRelationships[i][4]])
         IN E[Len(DefaultRelationships)]

\* SemanticMemory.initialize when no Neo4j server answers
SemanticInitialGraph == _initialize_default_knowledge(EmptyGraph)

\* SemanticMemory.store_triple: the graph afterwards (it returns True)
store_triple(g, triple) ==
    IF GraphTruthy(g)
    THEN add_edge(g, triple.subject, triple.object,
                  [type |-> triple.predicate, weight |-> triple.weight,
                   source |-> triple.source, created_at |-> triple.created_at])
    ELSE g

\* graph.edges(data=True): by source node, then by successor
GraphEdges(g) ==
    LET F[i \in 0..Len(g.nodes)] ==
            IF i = 0 THEN <<>>
            ELSE F[i - 1] \o [j \in 1..Len(g.succ[g.nodes[i]]) |->
                                 <<g.nodes[i], g.succ[g.nodes[i]][j]>>]
    IN F[Len(g.nodes)]

\* SemanticMemory.query_triples; an absent filter is NoneVal
query_triples(g, subject, predicate, object) ==
    IF ~GraphTruthy(g) THEN <<>>
    ELSE LET Keep(e) ==
                 /\ (subject = NoneVal \/ TheValue(subject) = "" \/ e[1] = TheValue(subject))
                 /\ (object = NoneVal \/ TheValue(object) = "" \/ e[2] = TheValue(object))
                 /\ (predicate = NoneVal \/ TheValue(predicate) = ""
                        \/ DictGet(g.attr[e], "type", "") = TheValue(predicate))
             kept == SelectSeqIdx(GraphEdges(g), Keep)
         IN [i \in 1..Len(kept) |->
                [subject |-> kept[i][1],
                 predicate |-> DictGet(g.attr[kept[i]], "type", "related_to"),
                 object |-> kept[i][2],
                 weight |-> DictGet(g.attr[kept[i]], "weight", 100),
                 source |-> DictGet(g.attr[kept[i]], "source", "system")]]

\* the for-loop over graph.neighbors(current): what it appends to the queue
\* and to the result; relationship_types is a set, empty for None or []
ScanNeighbors(g, concept, relationship_types, depth, current, curr_depth, path, visited) ==
    LET nbrs == g.succ[current]
        edge_type(n) == DictGet(g.attr[<<current, n>>], "type", "related_to")
        Taken(n) == /\ n \notin visited
                    /\ (relationship_types = {} \/ edge_type(n) \in relationship_types)
        taken == SelectSeqIdx(nbrs, Taken)
        NotStart(n) == n # concept
        reported == SelectSeqIdx(taken, NotStart)
    IN [queue |-> IF curr_depth + 1 < depth
                  THEN [i \in 1..Len(taken) |->
                           [node |-> taken[i], depth |-> curr_depth + 1,
                            path |-> Append(path, edge_type(taken[i]))]]
                  ELSE <<>>,
        related |-> [i \in 1..Len(reported) |->
                        [concept |-> reported[i],
                         path_types |-> Append(path, edge_type(reported[i])),
                         distance |-> curr_depth + 1,
                         relationship |-> edge_type(reported[i])]]]

RECURSIVE TraverseQueue(_, _, _, _, _, _, _)
\* the while-loop of get_related_concepts
TraverseQueue(g, concept, relationship_types, depth, queue, visited, related) ==
    IF queue = <<>> THEN related
    ELSE LET head == queue[1]
         IN IF head.node \in visited \/ head.depth >= depth
            THEN TraverseQueue(g, concept, relationship_types, depth,
                               Tail(queue), visited, related)
            ELSE LET scan == ScanNeighbors(g, concept, relationship_types, depth,
                                           head.node, head.depth, head.path,
                                           visited \cup {head.node})
                 IN TraverseQueue(g, concept, relationship_types, depth,
                                  Tail(queue) \o scan.queue,
                                  visited \cup {head.node},
                                  related \o scan.related)

\* SemanticMemory.get_related_concepts
get_related_concepts(g, concept, relationship_types, depth) ==
    IF ~GraphTruthy(g) THEN <<>>
    ELSE IF ~has_node(g, concept) THEN <<>>
    ELSE TraverseQueue(g, concept, relationship_types, depth,
                       <<[node |-> concept, depth |-> 0, path |-> <<>>]>>, {}, <<>>)

(***************************************************************************)
(* LongTermMemory: customer profiles in PostgreSQL (connection_pool set)   *)
(* or in the in-process memory_store.  rfm_score is in thousandths.        *)
(***************************************************************************)
SecondsPerDay == 86400
RecencyDays == 30
FrequencyCap == 10

Max(a, b) == IF a > b THEN a ELSE b
Min(a, b) == IF a < b THEN a ELSE b

\* max(interaction_history, key=timestamp): the first entry with the greatest
\* timestamp; an entry without one counts as ""
LastInteraction(interaction_history) ==
    LET Ts(i) == DictGet(interaction_history[i], "timestamp", -1)
        best == CHOOSE i \in 1..Len(interaction_history) :
                    /\ \A j \in 1..Len(interaction_history) : Ts(j) <= Ts(i)
                    /\ \A j \in 1..(i - 1) : Ts(j) < Ts(i)
    IN interaction_history[best]

\* a score that leaves the recency term out
_calculate_rfm_score_no_recency(interaction_history, t) ==
    IF interaction_history = <<>> THEN 0
    ELSE (200 * (3 * Min(FrequencyCap, Len(interaction_history)) + 15) + 9) \div 18

\* MemoryManager._calculate_rfm_score at time t.  With d = days_since and
\* n = len(history): recency = max(0, 1 - d/30), frequency = min(1, n/10),
\* monetary = 0.5, so that (recency + frequency + monetary) / 3 is
\* (max(0, 30 - d) + 3 * min(10, n) + 15) / 90; round(.., 3) has no ties here.
_calculate_rfm_score(interaction_history, t) ==
    IF interaction_history = <<>> THEN 0
    ELSE LET last_timestamp == DictGet(LastInteraction(interaction_history), "timestamp", t)
             days_since == (t - last_timestamp) \div SecondsPerDay
             ninety == Max(0, RecencyDays - days_since)
                         + 3 * Min(FrequencyCap, Len(interaction_history)) + 15
         IN (200 * ninety + 9) \div 18

\* LongTermMemory.get(lead_id)
LongTermGet(lead_id) ==
    IF connection_pool
    THEN IF lead_id \in DOMAIN customer_profiles
         THEN Some(customer_profiles[lead_id]) ELSE NoneVal
    ELSE IF lead_id \in DOMAIN lt_memory_store
         THEN Some(lt_memory_store[lead_id]) ELSE NoneVal

\* LongTermMemory.store(lead_id, data); it returns True
LongTermStoreEffect(lead_id, data) ==
    IF connection_pool
       THEN /\ customer_profiles' =
                   DictSet(customer_profiles, lead_id,
                           [lead_id |-> lead_id,
                            preferences |-> data.preferences,
                            interaction_history |-> data.interaction_history,
                            rfm_score |-> data.rfm_score,
                            created_at |-> IF lead_id \in DOMAIN customer_profiles
                                           THEN customer_profiles[lead_id].created_at
                                           ELSE now,
                            last_updated |-> now])
            /\ UNCHANGED lt_memory_store
       ELSE /\ lt_memory_store' = DictSet(lt_memory_store, lead_id, data)
            /\ UNCHANGED customer_profiles

\* MemoryManager.store_long_term: the record it hands to LongTermMemory.store
LongTermRecord(lead_id, preferences, interaction_history) ==
    [lead_id |-> lead_id,
     preferences |-> preferences,
     interaction_history |-> interaction_history,
     last_updated |-> now,
     rfm_score |-> _calculate_rfm_score(interaction_history, now)]

(***************************************************************************)
(* MemoryManager: consolidation helpers.                                   *)
(***************************************************************************)
short_to_long_threshold == 5
episodic_success_threshold == 80
DefaultTTL == 3600

PreferenceKey(k) == IF k = "preferred_channel" THEN "communication_channel" ELSE k

RecognizedKeys ==
    {"preferred_channel", "contact_time", "interests", "communication_style",
     "product_interests"}

\* an extraction that copies every context key
_extract_preferences_every_key(context) ==
    [pk \in {PreferenceKey(k) : k \in DOMAIN context} |->
        IF pk = "communication_channel" THEN context["preferred_channel"] ELSE context[pk]]

\* MemoryManager._extract_preferences
_extract_preferences(context) ==
    [pk \in {PreferenceKey(k) : k \in DOMAIN context \cap RecognizedKeys} |->
        IF pk = "communication_channel" THEN context["preferred_channel"] ELSE context[pk]]

\* MemoryManager._summarize_context
_summarize_context(context) ==
    LET parts ==
            (IF "lead_source" \in DOMAIN context
             THEN <<"Source: " \o context["lead_source"]>> ELSE <<>>)
            \o (IF "interaction_type" \in DOMAIN context
                THEN <<"Type: " \o context["interaction_type"]>> ELSE <<>>)
            \o (IF "outcome" \in DOMAIN context
                THEN <<"Outcome: " \o context["outcome"]>> ELSE <<>>)
    IN IF parts # <<>> THEN Join(parts, " | ") ELSE "General interaction"

\* a merge that keeps the value of a key the dict holds already
DictUpdateKeep(d, updates) ==
    [k \in DOMAIN d \cup DOMAIN updates |-> IF k \in DOMAIN d THEN d[k] ELSE updates[k]]

\* dict.update
DictUpdate(d, updates) ==
    [k \in DOMAIN d \cup DOMAIN updates |-> IF k \in DOMAIN updates THEN updates[k] ELSE d[k]]

\* _consolidate_to_long_term: the interaction record
InteractionRecord(conversation_id, short_term_data) ==
    [conversation_id |-> conversation_id,
     interaction_count |-> DictGet(short_term_data, "interaction_count", 1),
     context_summary |-> _summarize_context(short_term_data.context),
     timestamp |-> short_term_data.last_updated]

\* a consolidation that keeps a watermark: no second record for a conversation
ConsolidatedRecordOnce(conversation_id, short_term_data, existing_long_term) ==
    IF existing_long_term # NoneVal
    THEN LongTermRecord(short_term_data.lead_id,
             DictUpdate(TheValue(existing_long_term).preferences,
                        _extract_preferences(short_term_data.context)),
             IF \E i \in DOMAIN TheValue(existing_long_term).interaction_history :
                    TheValue(existing_long_term).interaction_history[i].conversation_id
                        = conversation_id
             THEN TheValue(existing_long_term).interaction_history
             ELSE Append(TheValue(existing_long_term).interaction_history,
                         InteractionRecord(conversation_id, short_term_data)))
    ELSE LongTermRecord(short_term_data.lead_id,
             _extract_preferences(short_term_data.context),
             <<InteractionRecord(conversation_id, short_term_data)>>)

\* _consolidate_to_long_term: the profile it writes, given the profile it read
ConsolidatedRecord(conversation_id, short_term_data, existing_long_term) ==
    IF existing_long_term # NoneVal
    THEN LongTermRecord(short_term_data.lead_id,
             DictUpdate(TheValue(existing_long_term).preferences,
                        _extract_preferences(short_term_data.context)),
             Append(TheValue(existing_long_term).interaction_history,
                    InteractionRecord(conversation_id, short_term_data)))
    ELSE LongTermRecord(short_term_data.lead_id,
             _extract_preferences(short_term_data.context),
             <<InteractionRecord(conversation_id, short_term_data)>>)

NeedsConsolidationAbove(interaction_count) == interaction_count > short_to_long_threshold

\* interaction_count >= short_to_long_threshold
NeedsConsolidation(interaction_count) == interaction_count >= short_to_long_threshold

(***************************************************************************)
(* Variable groups.                                                        *)
(***************************************************************************)
shortVars == <<redis_client, memory_store, redis_db, last_store>>
logVars == <<agent_actions_log, handoff_context_log>>
longVars == <<connection_pool, lt_memory_store, customer_profiles, logVars>>
knowledgeVars == <<episodes, graph, triples_stored>>
procVars == <<proc, running, calls, sst_calls, clean, call_writes>>
transportVars ==
    <<active_connections, agent_metadata, message_queue, ws_sent, ws_task, messages_sent,
      queued>>
vars == <<now, shortVars, longVars, knowledgeVars, procVars, maint, ret, transportVars>>

(***************************************************************************)
(* Actions of the ShortTermMemory interface.                               *)
(***************************************************************************)
TTLs == {NoneVal, Some(0), Some(TimeStep), Some(2 * TimeStep)}

StoreData ==
    {[conversation_id |-> "c1", lead_id |-> "L1", context |-> c,
      last_updated |-> 0, interaction_count |-> 1] : c \in {CtxEmail, CtxSms, CtxDate}}
        \cup {<<>>}

Store(key, data, ttl) ==
    /\ ShortTermStoreEffect(key, data, ttl)
    /\ ret' = [op |-> "store", key |-> key, ok |-> TRUE, at |-> now]
    /\ UNCHANGED <<now, transportVars, redis_client, longVars, knowledgeVars, procVars, maint>>

Get(key) ==
    /\ ShortTermGetEffect(key)
    /\ ret' = [op |-> "get", key |-> key, result |-> ShortTermGet(key, now), at |-> now]
    /\ UNCHANGED <<now, transportVars, redis_client, last_store, longVars, knowledgeVars, procVars, maint>>

Delete(key) ==
    /\ IF redis_client
       THEN /\ redis_db' = DictDel(RedisPurge(redis_db, now), {key})
            /\ ret' = [op |-> "delete", key |-> key,
                       ok |-> key \in DOMAIN RedisPurge(redis_db, now), at |-> now]
            /\ UNCHANGED memory_store
       ELSE /\ memory_store' = DictDel(memory_store, {key})
            /\ ret' = [op |-> "delete", key |-> key,
                       ok |-> key \in DOMAIN memory_store, at |-> now]
            /\ UNCHANGED redis_db
    /\ last_store' = [last_store EXCEPT ![key] = NoneVal]
    /\ UNCHANGED <<now, transportVars, redis_client, longVars, knowledgeVars, procVars, maint>>

\* ShortTermMemory.cleanup_expired(): its effect on the backing
CleanupExpiredEffect ==
    IF redis_client
    THEN UNCHANGED <<memory_store, redis_db>>
    ELSE /\ memory_store' = DictDel(memory_store, MemExpiredKeys(memory_store, now))
         /\ UNCHANGED redis_db

\* cleanup_expired has no return statement: the call returns None
CleanupExpired ==
    /\ CleanupExpiredEffect
    /\ ret' = [op |-> "cleanup_expired",
               removed |-> IF redis_client THEN {} ELSE MemExpiredKeys(memory_store, now),
               result |-> NoneVal,
               at |-> now]
    /\ UNCHANGED <<now, transportVars, redis_client, last_store, longVars, knowledgeVars, procVars, maint>>

\* ShortTermMemory.get_all_active(): the value returned at time t
ShortTermActive(t) ==
    IF redis_client THEN RedisActive(redis_db, t) ELSE MemActive(memory_store, t)

GetAllActive ==
    /\ IF redis_client
       THEN redis_db' = RedisPurge(redis_db, now) /\ UNCHANGED memory_store
       ELSE UNCHANGED <<memory_store, redis_db>>
    /\ ret' = [op |-> "get_all_active", result |-> ShortTermActive(now), at |-> now]
    /\ UNCHANGED <<now, transportVars, redis_client, last_store, longVars, knowledgeVars, procVars, maint>>

(***************************************************************************)
(* Calls that reach a Redis server that does not answer: the client        *)
(* raises, store and get catch the exception, log it and return.          *)
(***************************************************************************)
\* store(key, data, ttl) when setex / set raises: `except: return False`
StoreUnreachable(key, data, ttl) ==
    /\ redis_client
    /\ ret' = [op |-> "store", key |-> key, ok |-> FALSE, at |-> now]
    /\ UNCHANGED <<now, transportVars, shortVars, longVars, knowledgeVars, procVars, maint>>

\* get(key) when the client's get raises: `except: return None`
GetUnreachable(key) ==
    /\ redis_client
    /\ ret' = [op |-> "get", key |-> key, result |-> NoneVal, at |-> now]
    /\ UNCHANGED <<now, transportVars, shortVars, longVars, knowledgeVars, procVars, maint>>

(***************************************************************************)
(* Two ShortTermMemory instances, one on each backing, that receive the    *)
(* same calls at the same times: memory_store is the state of the          *)
(* in-process one, redis_db that of the one on Redis.  ret holds what each  *)
(* returned.  The times to live are such that no call falls on the very    *)
(* instant at which an entry expires.                                      *)
(***************************************************************************)
BackingTTLs == {NoneVal, Some(TimeStep \div 2), Some(TimeStep + TimeStep \div 2)}

StoreBoth(key, data, ttl) ==
    /\ memory_store' = MemStoreEntry(memory_store, key, data, ttl, now)
    /\ redis_db' = RedisSet(redis_db, key, data, ttl, now)
    /\ ret' = [op |-> "store", key |-> key, mem |-> TRUE, redis |-> TRUE, at |-> now]
    /\ UNCHANGED <<now, transportVars, redis_client, last_store, longVars, knowledgeVars, procVars, maint>>

GetBoth(key) ==
    /\ memory_store' = MemGetStore(memory_store, key, now)
    /\ redis_db' = RedisPurge(redis_db, now)
    /\ ret' = [op |-> "get", key |-> key,
               mem |-> MemGetResult(memory_store, key, now),
               redis |-> RedisGetResult(redis_db, key, now), at |-> now]
    /\ UNCHANGED <<now, transportVars, redis_client, last_store, longVars, knowledgeVars, procVars, maint>>

\* delete: `key in self.memory_store` in process, `DEL key > 0` on Redis
DeleteBoth(key) ==
    /\ memory_store' = DictDel(memory_store, {key})
    /\ redis_db' = DictDel(RedisPurge(redis_db, now), {key})
    /\ ret' = [op |-> "delete", key |-> key,
               mem |-> key \in DOMAIN memory_store,
               redis |-> key \in DOMAIN RedisPurge(redis_db, now), at |-> now]
    /\ UNCHANGED <<now, transportVars, redis_client, last_store, longVars, knowledgeVars, procVars, maint>>

GetAllActiveBoth ==
    /\ redis_db' = RedisPurge(redis_db, now)
    /\ ret' = [op |-> "get_all_active",
               mem |-> MemActive(memory_store, now),
               redis |-> RedisActive(redis_db, now), at |-> now]
    /\ UNCHANGED <<now, transportVars, redis_client, memory_store, last_store, longVars, knowledgeVars,
                   procVars, maint>>

\* cleanup_expired: a sweep in process, nothing on Redis
CleanupExpiredBoth ==
    /\ memory_store' = DictDel(memory_store, MemExpiredKeys(memory_store, now))
    /\ ret' = [op |-> "cleanup_expired", at |-> now]
    /\ UNCHANGED <<now, transportVars, redis_client, redis_db, last_store, longVars, knowledgeVars,
                   procVars, maint>>

\* time passes between calls: one step of the clock is far longer than a call
Tick ==
    /\ now < MaxNow
    /\ running = NoneVal
    /\ \A p \in DOMAIN proc : proc[p].pc = "idle"
    /\ maint.pc = "sleep"
    /\ now' = now + TimeStep
    /\ UNCHANGED <<transportVars, shortVars, longVars, knowledgeVars, procVars, maint, ret>>

\* the clock advances while the maintenance task awaits a server
TickAwaiting ==
    /\ now < MaxNow
    /\ running = NoneVal
    /\ \A p \in DOMAIN proc : proc[p].pc = "idle"
    /\ maint.pc # "sleep"
    /\ now' = now + TimeStep
    /\ UNCHANGED <<transportVars, shortVars, longVars, knowledgeVars, procVars, maint, ret>>

(***************************************************************************)
(* MemoryManager calls.  A call runs as a task of the single event loop:   *)
(* it keeps the loop until it awaits a round trip to a server (Redis,      *)
(* PostgreSQL); an await on an in-process backing does not suspend.  Each   *)
(* action is the effect of the awaited operation followed by the code up   *)
(* to the next await.                                                      *)
(***************************************************************************)
Procs == {"p1", "p2"}
CallConversationIds == {"c1"}
\* (lead_id, context, ttl)
StoreCalls ==
    {<<"L1", CtxSms, NoneVal>>, <<"L1", CtxEmail, NoneVal>>, <<"", CtxEmail, Some(TimeStep)>>}
ContextUpdates == {[interests |-> "ml"]}

Idle == [pc |-> "idle"]

CanRun(task) == running = NoneVal \/ running = Some(task)

\* the loop after a step of `task` whose next operation is on a server or not
Handover(task, awaits_server) == IF awaits_server THEN NoneVal ELSE Some(task)

InProgress(conversation_id) ==
    \E q \in Procs : proc[q].pc # "idle" /\ proc[q].conversation_id = conversation_id

\* store_short_term, lines 128-139: build memory_data and read the entry
StoreShortTermCall(p, conversation_id, lead_id, context, ttl) ==
    LET existing == ShortTermGet(conversation_id, now)
        memory_data ==
            [conversation_id |-> conversation_id,
             lead_id |-> lead_id,
             context |-> context,
             last_updated |-> now,
             interaction_count |->
                 IF existing # NoneVal
                 THEN DictGet(TheValue(existing), "interaction_count", 0) + 1
                 ELSE 1]
    IN /\ proc[p].pc = "idle"
       /\ running = NoneVal
       /\ calls < MaxCalls
       /\ ShortTermGetEffect(conversation_id)
       /\ proc' = [proc EXCEPT ![p] =
                      [pc |-> "sst_store", conversation_id |-> conversation_id,
                       memory_data |-> memory_data, ttl |-> ttl]]
       /\ running' = Handover(p, redis_client)
       /\ calls' = calls + 1
       /\ clean' = [clean EXCEPT ![conversation_id] =
                       /\ @
                       /\ lead_id # ""
                       /\ ~InProgress(conversation_id)
                       /\ (existing = NoneVal <=> sst_calls[conversation_id] = 0)]
       /\ UNCHANGED <<now, transportVars, redis_client, last_store, longVars, knowledgeVars,
                      sst_calls, call_writes, maint, ret>>

StoreShortTermReturn(p) ==
    /\ proc' = [proc EXCEPT ![p] = Idle]
    /\ running' = NoneVal
    /\ sst_calls' = [sst_calls EXCEPT ![proc[p].conversation_id] = @ + 1]
    /\ ret' = [op |-> "store_short_term", conversation_id |-> proc[p].conversation_id,
               ok |-> TRUE, at |-> now]

\* store_short_term, lines 141-151: write the entry, then consolidate or return
StoreShortTermStore(p) ==
    /\ proc[p].pc = "sst_store"
    /\ CanRun(p)
    /\ ShortTermStoreEffect(proc[p].conversation_id, proc[p].memory_data,
                            IF Truthy(proc[p].ttl) THEN proc[p].ttl ELSE Some(DefaultTTL))
    /\ IF NeedsConsolidation(proc[p].memory_data.interaction_count)
          /\ proc[p].memory_data.lead_id # ""
       THEN /\ proc' = [proc EXCEPT ![p].pc = "con_get"]
            /\ running' = Handover(p, connection_pool)
            /\ UNCHANGED <<sst_calls, ret>>
       ELSE StoreShortTermReturn(p)
    /\ UNCHANGED <<now, transportVars, redis_client, longVars, knowledgeVars, calls, clean,
                   call_writes, maint>>

\* _consolidate_to_long_term, line 335: read the profile
ConsolidateGet(p) ==
    /\ proc[p].pc = "con_get"
    /\ CanRun(p)
    /\ proc' = [proc EXCEPT ![p] =
                   [pc |-> "con_store", conversation_id |-> proc[p].conversation_id,
                    memory_data |-> proc[p].memory_data, ttl |-> proc[p].ttl,
                    existing_long_term |-> LongTermGet(proc[p].memory_data.lead_id)]]
    /\ running' = Handover(p, connection_pool)
    /\ UNCHANGED <<now, transportVars, shortVars, longVars, knowledgeVars, calls, sst_calls, clean,
                   call_writes, maint, ret>>

\* _consolidate_to_long_term, lines 338-367: merge and write the profile
ConsolidateStore(p) ==
    LET record == ConsolidatedRecord(proc[p].conversation_id, proc[p].memory_data,
                                     proc[p].existing_long_term)
    IN /\ proc[p].pc = "con_store"
       /\ CanRun(p)
       /\ LongTermStoreEffect(proc[p].memory_data.lead_id, record)
       /\ call_writes' = [call_writes EXCEPT ![proc[p].conversation_id] = @ + 1]
       /\ StoreShortTermReturn(p)
       /\ UNCHANGED <<now, transportVars, shortVars, connection_pool, logVars, knowledgeVars, calls, clean, maint>>

\* update_short_term, lines 164-171: read the entry and merge the updates
UpdateShortTermCall(p, conversation_id, context_updates) ==
    LET existing == ShortTermGet(conversation_id, now)
    IN /\ proc[p].pc = "idle"
       /\ running = NoneVal
       /\ calls < MaxCalls
       /\ ShortTermGetEffect(conversation_id)
       /\ calls' = calls + 1
       /\ clean' = [clean EXCEPT ![conversation_id] = FALSE]
       /\ IF existing = NoneVal
          THEN /\ ret' = [op |-> "update_short_term", conversation_id |-> conversation_id,
                          ok |-> FALSE, at |-> now]
               /\ UNCHANGED <<proc, running>>
          ELSE /\ proc' = [proc EXCEPT ![p] =
                              [pc |-> "ust_store", conversation_id |-> conversation_id,
                               existing |->
                                   [TheValue(existing) EXCEPT
                                       !.context = DictUpdate(@, context_updates),
                                       !.last_updated = now,
                                       !.interaction_count = @ + 1]]]
               /\ running' = Handover(p, redis_client)
               /\ UNCHANGED ret
       /\ UNCHANGED <<now, transportVars, redis_client, last_store, longVars, knowledgeVars, sst_calls,
                      call_writes, maint>>

\* update_short_term, line 173: write the entry back, with no ttl
UpdateShortTermStore(p) ==
    /\ proc[p].pc = "ust_store"
    /\ CanRun(p)
    /\ ShortTermStoreEffect(proc[p].conversation_id, proc[p].existing, NoneVal)
    /\ proc' = [proc EXCEPT ![p] = Idle]
    /\ running' = NoneVal
    /\ ret' = [op |-> "update_short_term", conversation_id |-> proc[p].conversation_id,
               ok |-> TRUE, at |-> now]
    /\ UNCHANGED <<now, transportVars, redis_client, longVars, knowledgeVars, calls, sst_calls, clean,
                   call_writes, maint>>

\* get_short_term
GetShortTerm(conversation_id) ==
    /\ running = NoneVal
    /\ calls < MaxCalls
    /\ calls' = calls + 1
    /\ ShortTermGetEffect(conversation_id)
    /\ ret' = [op |-> "get_short_term", conversation_id |-> conversation_id,
               result |-> ShortTermGet(conversation_id, now), at |-> now]
    /\ UNCHANGED <<now, transportVars, redis_client, last_store, longVars, knowledgeVars, proc, running,
                   sst_calls, clean, call_writes, maint>>

(***************************************************************************)
(* run_memory_consolidation: one cycle is cleanup_expired, a scan of the   *)
(* active entries, a consolidation of each entry at or over the threshold, *)
(* the mining of the recent successful episodes, and a sleep.              *)
(***************************************************************************)
MaintenanceInterval == 300
MaintenanceTask == "maintenance"
RecentSuccessLimit == 100
MinedWeightDefault == 50

ContextHas(context, k) == \E i \in 1..Len(context) : context[i][1] = k
ContextGet(context, k) == context[CHOOSE i \in 1..Len(context) : context[i][1] = k][2]

\* MemoryManager._extract_concepts
_extract_concepts(episode) ==
    LET scenario == DictGet(episode, "scenario", "")
        context == DictGet(episode, "context", <<>>)
        actions == DictGet(episode, "action_sequence", <<>>)
        from_context ==
            IF ContextHas(context, "lead_source") /\ ContextHas(context, "outcome")
            THEN <<[subject |-> ContextGet(context, "lead_source"),
                    object |-> ContextGet(context, "outcome")]>>
            ELSE <<>>
        from_actions ==
            IF scenario # "" /\ "action_sequence" \in DOMAIN episode
            THEN [i \in 1..Len(actions) |-> [subject |-> scenario, object |-> actions[i]]]
            ELSE <<>>
    IN from_context \o from_actions

\* MemoryManager._extract_concepts raises: `for action in None`
ExtractConceptsRaises(episode) ==
    /\ DictGet(episode, "scenario", "") # ""
    /\ "action_sequence" \in DOMAIN episode
    /\ episode.action_sequence = NotIterable

\* the recent successes _update_semantic_relationships gets through before
\* _extract_concepts raises
MinedEpisodes(recent) ==
    IF \E i \in 1..Len(recent) : ExtractConceptsRaises(recent[i])
    THEN SubSeq(recent, 1,
                (CHOOSE i \in 1..Len(recent) :
                    /\ ExtractConceptsRaises(recent[i])
                    /\ \A j \in 1..(i - 1) : ~ExtractConceptsRaises(recent[j])) - 1)
    ELSE recent

\* _update_semantic_relationships raises
MiningRaises(store) ==
    \E i \in 1..Len(get_recent_successes(store, RecentSuccessLimit)) :
        ExtractConceptsRaises(get_recent_successes(store, RecentSuccessLimit)[i])

RetryInterval == 60

\* a task that sleeps the same time after an error
NextCycleWaitNormal(raised) == MaintenanceInterval

\* lines 384 and 388: the sleep after a cycle that raised or did not
NextCycleWait(raised) == IF raised THEN RetryInterval ELSE MaintenanceInterval

\* MemoryManager.store_knowledge_triple: the triple handed to store_triple
KnowledgeTriple(subject, predicate, obj, weight, source, t) ==
    [subject |-> subject, predicate |-> predicate, object |-> obj,
     weight |-> weight, source |-> source, created_at |-> t]

\* the triples _update_semantic_relationships stores, in order
MinedTriples(store, t) ==
    LET recent == MinedEpisodes(get_recent_successes(store, RecentSuccessLimit))
        F[i \in 0..Len(recent)] ==
            IF i = 0 THEN <<>>
            ELSE F[i - 1] \o
                 [j \in 1..Len(_extract_concepts(recent[i])) |->
                     KnowledgeTriple(_extract_concepts(recent[i])[j].subject, "related_to",
                                     _extract_concepts(recent[i])[j].object,
                                     DictGet(recent[i], "outcome_score", MinedWeightDefault),
                                     "episodic_learning", t)]
    IN F[Len(recent)]

\* the history after store_triple has returned True for each of the triples
RecordTriples(history, triples) ==
    LET H[i \in 0..Len(triples)] ==
            IF i = 0 THEN history
            ELSE DictSet(H[i - 1],
                         <<triples[i].subject, triples[i].predicate, triples[i].object>>,
                         triples[i].weight)
    IN H[Len(triples)]

\* MemoryManager._update_semantic_relationships: the graph afterwards
_update_semantic_relationships(g, store, t) ==
    LET triples == MinedTriples(store, t)
        G[i \in 0..Len(triples)] ==
            IF i = 0 THEN g ELSE store_triple(G[i - 1], triples[i])
    IN G[Len(triples)]

\* the entries of a scan that _consolidate_frequent_interactions consolidates
FrequentEntries(active) ==
    {c \in DOMAIN active :
        /\ NeedsConsolidation(DictGet(active[c], "interaction_count", 0))
        /\ DictGet(active[c], "lead_id", "") # ""}

MaintSleeping == [pc |-> "sleep", cycles |-> 0, wake_at |-> 0]

\* lines 375-378 and 394: cleanup_expired, then the scan of the active entries;
\* the task goes on to the profile of the first entry over the threshold, or
\* to the mining when there is none
MaintenanceScanTo(cycles) ==
    /\ maint.pc = "sleep"
    /\ running = NoneVal
    /\ now >= maint.wake_at
    /\ IF redis_client
       THEN /\ redis_db' = RedisPurge(redis_db, now)
            /\ UNCHANGED memory_store
       ELSE /\ memory_store' = DictDel(memory_store, MemExpiredKeys(memory_store, now))
            /\ UNCHANGED redis_db
    /\ LET active == IF redis_client THEN RedisActive(redis_db, now)
                     ELSE MemActive(DictDel(memory_store, MemExpiredKeys(memory_store, now)),
                                    now)
       IN /\ maint' = [pc |-> "consolidate", cycles |-> cycles,
                       wake_at |-> maint.wake_at,
                       active |-> active, pending |-> FrequentEntries(active)]
          /\ running' = Handover(MaintenanceTask,
                                 connection_pool /\ FrequentEntries(active) # {})
    /\ UNCHANGED <<now, transportVars, redis_client, last_store, longVars, knowledgeVars, proc, calls,
                   sst_calls, clean, call_writes, ret>>

\* a cycle of the task, one of MaxCycles
MaintenanceScan == maint.cycles < MaxCycles /\ MaintenanceScanTo(maint.cycles + 1)

\* a cycle of the task, of any number: `while True`
MaintenanceLoop == MaintenanceScanTo(maint.cycles)

\* lines 396-400, 335: the next entry over the threshold, and its profile
MaintenanceConsolidateGet(c) ==
    /\ maint.pc = "consolidate"
    /\ CanRun(MaintenanceTask)
    /\ c \in maint.pending
    /\ maint' = [pc |-> "write", cycles |-> maint.cycles, wake_at |-> maint.wake_at,
                 active |-> maint.active, pending |-> maint.pending \ {c},
                 conversation_id |-> c,
                 existing_long_term |-> LongTermGet(maint.active[c].lead_id)]
    /\ running' = Handover(MaintenanceTask, connection_pool)
    /\ UNCHANGED <<now, transportVars, shortVars, longVars, knowledgeVars, proc, calls, sst_calls, clean,
                   call_writes, ret>>

\* lines 338-367: merge and write the profile of that entry
MaintenanceConsolidateStore ==
    LET c == maint.conversation_id
        record == ConsolidatedRecord(c, maint.active[c], maint.existing_long_term)
    IN /\ maint.pc = "write"
       /\ CanRun(MaintenanceTask)
       /\ LongTermStoreEffect(maint.active[c].lead_id, record)
       /\ maint' = [pc |-> "consolidate", cycles |-> maint.cycles,
                    wake_at |-> maint.wake_at,
                    active |-> maint.active, pending |-> maint.pending]
       /\ running' = Handover(MaintenanceTask, connection_pool)
       /\ UNCHANGED <<now, transportVars, shortVars, connection_pool, logVars, knowledgeVars, proc, calls,
                      sst_calls, clean, call_writes, ret>>

\* lines 381-384: mine the recent successes, then sleep
MaintenanceMine ==
    /\ maint.pc = "consolidate"
    /\ CanRun(MaintenanceTask)
    /\ maint.pending = {}
    /\ graph' = _update_semantic_relationships(graph, episodes, now)
    /\ triples_stored' = RecordTriples(triples_stored, MinedTriples(episodes, now))
    /\ maint' = [pc |-> "sleep", cycles |-> maint.cycles,
                 wake_at |-> now + NextCycleWait(MiningRaises(episodes))]
    /\ running' = NoneVal
    /\ UNCHANGED <<now, transportVars, shortVars, longVars, episodes, proc, calls, sst_calls, clean,
                   call_writes, ret>>

Maintenance ==
    \/ MaintenanceScan
    \/ \E c \in ConversationIds : MaintenanceConsolidateGet(c)
    \/ MaintenanceConsolidateStore
    \/ MaintenanceMine

(***************************************************************************)
(* MemoryManager calls on the episodic and the semantic store.  Both are   *)
(* in-process here, so a call runs to its end without suspending.          *)
(***************************************************************************)
EpDemo ==
    [scenario |-> "demo_request",
     context |-> << <<"lead_source", "web">>, <<"outcome", "converted">> >>,
     action_sequence |-> <<"qualify", "schedule_demo">>,
     agent_type |-> "lead_triage",
     outcome_score |-> 90]
EpDemoAgain == [EpDemo EXCEPT !.outcome_score = 95, !.agent_type = "engagement"]
EpCold == [scenario |-> "cold_call", agent_type |-> "engagement", outcome_score |-> 80]
EpLow == [scenario |-> "cold_call", agent_type |-> "engagement", outcome_score |-> 79]
EpNoScore == [scenario |-> "cold_call", agent_type |-> "engagement"]
EpisodeInputs == {EpDemo, EpDemoAgain, EpCold, EpLow, EpNoScore}

\* EpDemo with its context pairs inserted in the other order
EpDemoReordered ==
    [EpDemo EXCEPT !.context = << <<"outcome", "converted">>, <<"lead_source", "web">> >>]
\* an episode whose scenario is also its action, reported without agent_type
EpFollowUp ==
    [scenario |-> "follow_up", action_sequence |-> <<"follow_up">>, outcome_score |-> 85]
LearningEpisodes == {EpDemo, EpDemoReordered, EpFollowUp}
\* an episode reported with "action_sequence": None
EpNoActions ==
    [scenario |-> "cold_call", action_sequence |-> NotIterable, outcome_score |-> 85]
CycleEpisodes == {EpFollowUp, EpNoActions}

QueryWeb == << <<"lead_source", "web">> >>
QueryCold == << <<"scenario", "cold_call">> >>
QueryDemo == << <<"scenario", "demo_request">>, <<"lead_source", "web">> >>
DefaultLimit == 5
\* (query_context, agent_type, limit)
Searches ==
    {<<QueryWeb, NoneVal, DefaultLimit>>,
     <<QueryWeb, Some("lead_triage"), DefaultLimit>>,
     <<QueryCold, NoneVal, DefaultLimit>>,
     <<QueryCold, NoneVal, 1>>,
     <<QueryDemo, NoneVal, 1>>,
     <<QueryDemo, Some("engagement"), DefaultLimit>>}

MeetsSuccessThresholdAlways(outcome_score) == TRUE

\* line 211, negated: the episode is kept
MeetsSuccessThreshold(outcome_score) == ~(outcome_score < episodic_success_threshold)

\* store_episodic_memory
StoreEpisodicMemory(episode) ==
    LET outcome_score == DictGet(episode, "outcome_score", 0)
        episode_id == Len(episodes) + 1
        stamped == [k \in DOMAIN episode \cup {"episode_id", "stored_at"} |->
                       IF k = "episode_id" THEN episode_id
                       ELSE IF k = "stored_at" THEN now
                       ELSE episode[k]]
    IN /\ running = NoneVal
       /\ Len(episodes) < MaxEpisodes
       /\ IF ~MeetsSuccessThreshold(outcome_score)
          THEN /\ UNCHANGED episodes
               /\ ret' = [op |-> "store_episodic_memory", episode |-> episode,
                          ok |-> FALSE, at |-> now]
          ELSE /\ episodes' = EpisodicStore(episodes, episode_id, stamped)
               /\ ret' = [op |-> "store_episodic_memory", episode |-> episode,
                          ok |-> TRUE, at |-> now]
       /\ UNCHANGED <<now, transportVars, shortVars, longVars, graph, triples_stored, procVars, maint>>

\* search_episodic_memory
SearchEpisodicMemory(query_context, agent_type, limit) ==
    LET query_text == _context_to_search_text(query_context)
        filters == IF agent_type # NoneVal /\ TheValue(agent_type) # ""
                   THEN [agent_type |-> TheValue(agent_type)]
                   ELSE <<>>
    IN /\ running = NoneVal
       /\ ret' = [op |-> "search_episodic_memory",
                  query_text |-> query_text,
                  query_embedding |-> _create_embedding(query_text),
                  agent_type |-> agent_type,
                  limit |-> limit,
                  result |-> search_similar(episodes, query_text, filters, limit),
                  at |-> now]
       /\ UNCHANGED <<now, transportVars, shortVars, longVars, knowledgeVars, procVars, maint>>

\* (subject, predicate, object, weight)
TripleInputs ==
    {<<"A", "enables", "B", 50>>, <<"A", "enables", "B", 90>>, <<"B", "enables", "C", 50>>,
     <<"C", "enables", "A", 50>>, <<"C", "blocks", "A", 90>>}
\* (subject, predicate, object)
TripleQueries ==
    {<<Some("A"), Some("enables"), Some("B")>>,
     <<Some("B"), Some("enables"), Some("C")>>,
     <<Some("A"), NoneVal, NoneVal>>,
     <<Some("C"), NoneVal, Some("A")>>,
     <<NoneVal, NoneVal, NoneVal>>}
Concepts == {"A", "B", "email_marketing"}
RelationshipTypes == {{}, {"enables"}, {"blocks"}}
Depths == {1, 2}

\* store_knowledge_triple
StoreKnowledgeTriple(subject, predicate, obj, weight) ==
    LET triple == KnowledgeTriple(subject, predicate, obj, weight, "system", now)
    IN /\ running = NoneVal
       /\ graph' = store_triple(graph, triple)
       /\ triples_stored' = RecordTriples(triples_stored, <<triple>>)
       /\ ret' = [op |-> "store_knowledge_triple", triple |-> triple, ok |-> TRUE,
                  at |-> now]
       /\ UNCHANGED <<now, transportVars, shortVars, longVars, episodes, procVars, maint>>

\* query_semantic_memory
QuerySemanticMemory(subject, predicate, obj) ==
    /\ running = NoneVal
    /\ ret' = [op |-> "query_semantic_memory",
               subject |-> subject, predicate |-> predicate, object |-> obj,
               result |-> query_triples(graph, subject, predicate, obj),
               at |-> now]
    /\ UNCHANGED <<now, transportVars, shortVars, longVars, knowledgeVars, procVars, maint>>

\* get_related_concepts
GetRelatedConcepts(concept, relationship_types, depth) ==
    /\ running = NoneVal
    /\ ret' = [op |-> "get_related_concepts",
               concept |-> concept, relationship_types |-> relationship_types,
               depth |-> depth,
               result |-> get_related_concepts(graph, concept, relationship_types, depth),
               at |-> now]
    /\ UNCHANGED <<now, transportVars, shortVars, longVars, knowledgeVars, procVars, maint>>

(***************************************************************************)
(* MemoryManager: the long-term calls.  An interaction's timestamp is ISO  *)
(* text, modelled by its time in seconds; text that is not ISO sorts after *)
(* every ISO text (a letter is greater than a digit).                      *)
(***************************************************************************)
LeadIds == {"L1"}
ProfilePreferences == {[communication_channel |-> "email"], [interests |-> "ai"]}

UnparsableTimestamp == 10000 * SecondsPerDay

Interaction(conversation_id, timestamp) ==
    [conversation_id |-> conversation_id, timestamp |-> timestamp]

DaysAhead == 60
DaysBehind == 40
LongHistory == 11

\* the interaction histories a caller passes at time t
Histories(t) ==
    {<<>>,
     <<Interaction("c1", t)>>,
     <<Interaction("c1", t - DaysBehind * SecondsPerDay)>>,
     <<Interaction("c1", t + DaysAhead * SecondsPerDay)>>,
     <<Interaction("c1", t - SecondsPerDay), Interaction("c2", t)>>,
     [i \in 1..LongHistory |-> Interaction("c1", t)],
     <<Interaction("c1", UnparsableTimestamp)>>}

\* datetime.fromisoformat on the timestamp of the latest interaction raises
FromIsoformatRaises(interaction_history) ==
    /\ interaction_history # <<>>
    /\ DictGet(LastInteraction(interaction_history), "timestamp", 0) = UnparsableTimestamp

\* rfm_score DECIMAL(3,3): PostgreSQL rejects a value that rounds to 1 or more
NumericFits(rfm_score) == rfm_score > -1000 /\ rfm_score < 1000

\* store_long_term: _calculate_rfm_score is not inside a try, so what it
\* raises reaches the caller; LongTermMemory.store catches what the
\* database raises and returns False
StoreLongTerm(lead_id, preferences, interaction_history) ==
    /\ running = NoneVal
    /\ IF FromIsoformatRaises(interaction_history)
       THEN /\ ret' = [op |-> "store_long_term", lead_id |-> lead_id,
                       raised |-> TRUE, at |-> now]
            /\ UNCHANGED longVars
       ELSE LET memory_data == LongTermRecord(lead_id, preferences, interaction_history)
                stored == ~connection_pool \/ NumericFits(memory_data.rfm_score)
            IN /\ IF stored
                  THEN /\ LongTermStoreEffect(lead_id, memory_data)
                       /\ UNCHANGED <<connection_pool, logVars>>
                  ELSE UNCHANGED longVars
               /\ ret' = [op |-> "store_long_term", lead_id |-> lead_id,
                          raised |-> FALSE, ok |-> stored,
                          preferences |-> preferences,
                          interaction_history |-> interaction_history,
                          before |-> LongTermGet(lead_id), at |-> now]
    /\ UNCHANGED <<now, transportVars, shortVars, knowledgeVars, procVars, maint>>

\* get_long_term
GetLongTerm(lead_id) ==
    /\ running = NoneVal
    /\ ret' = [op |-> "get_long_term", lead_id |-> lead_id, raised |-> FALSE,
               result |-> LongTermGet(lead_id), at |-> now]
    /\ UNCHANGED <<now, transportVars, shortVars, longVars, knowledgeVars, procVars, maint>>

(***************************************************************************)
(* MemoryManager: the action log and the handoff log.  Both are tables of  *)
(* the database; without a connection pool LongTermMemory keeps nothing.   *)
(***************************************************************************)
MaxLogEntries == 2

\* AgentAction objects: (action_id, agent_type, action_type)
ActionInputs ==
    {<<"a1", "lead_triage", "classify">>, <<"a2", "engagement", "send_email">>}
\* HandoffContext objects: (conversation_id, lead_id, source_agent, target_agent)
HandoffInputs ==
    {<<"c1", "L1", "lead_triage", "engagement">>,
     <<"c2", "L1", "engagement", "campaign_optimization">>}

HasActionId(log, action_id) == \E i \in 1..Len(log) : log[i].action_id = action_id

\* log_agent_action: the insert fails on an action_id the table holds
\* (PRIMARY KEY), log_action catches that and returns False
LogAgentAction(action_id, agent_type, action_type) ==
    LET action_data == [action_id |-> action_id, agent_type |-> agent_type,
                        action_type |-> action_type, timestamp |-> now]
        inserted == connection_pool /\ ~HasActionId(agent_actions_log, action_id)
    IN /\ running = NoneVal
       /\ Len(agent_actions_log) < MaxLogEntries
       /\ agent_actions_log' = IF inserted THEN Append(agent_actions_log, action_data)
                               ELSE agent_actions_log
       /\ ret' = [op |-> "log_agent_action", entry |-> action_data,
                  ok |-> ~connection_pool \/ inserted, at |-> now]
       /\ UNCHANGED <<now, transportVars, shortVars, connection_pool, lt_memory_store, customer_profiles,
                      handoff_context_log, knowledgeVars, procVars, maint>>

\* store_handoff_context
StoreHandoffContext(conversation_id, lead_id, source_agent, target_agent) ==
    LET handoff_data == [conversation_id |-> conversation_id, lead_id |-> lead_id,
                         source_agent |-> source_agent, target_agent |-> target_agent,
                         timestamp |-> now]
    IN /\ running = NoneVal
       /\ Len(handoff_context_log) < MaxLogEntries
       /\ handoff_context_log' = IF connection_pool
                                 THEN Append(handoff_context_log, handoff_data)
                                 ELSE handoff_context_log
       /\ ret' = [op |-> "store_handoff_context", entry |-> handoff_data,
                  ok |-> TRUE, at |-> now]
       /\ UNCHANGED <<now, transportVars, shortVars, connection_pool, lt_memory_store, customer_profiles,
                      agent_actions_log, knowledgeVars, procVars, maint>>

\* LongTermMemory.get_analytics
get_analytics ==
    IF connection_pool
    THEN [total_customers |-> Cardinality(DOMAIN customer_profiles),
          total_actions |-> Len(agent_actions_log),
          total_handoffs |-> Len(handoff_context_log)]
    ELSE [total_customers |-> Cardinality(DOMAIN lt_memory_store),
          total_actions |-> 0,
          total_handoffs |-> 0]

GetAnalytics ==
    /\ running = NoneVal
    /\ ret' = [op |-> "get_analytics", result |-> get_analytics, at |-> now]
    /\ UNCHANGED <<now, transportVars, shortVars, longVars, knowledgeVars, procVars, maint>>

(***************************************************************************)
(* MemoryManager.get_memory_status: the get_status() of each tier.  The    *)
(* episodic and the semantic tier have no server here (collection and      *)
(* driver are None).                                                       *)
(***************************************************************************)
\* ShortTermMemory.get_status
ShortTermStatus ==
    IF redis_client
    THEN [type |-> "redis", status |-> "connected"]
    ELSE [type |-> "in_memory", status |-> "active",
          entries |-> Cardinality(DOMAIN memory_store)]

\* LongTermMemory.get_status
LongTermStatus ==
    IF connection_pool
    THEN [type |-> "postgresql", status |-> "connected",
          total_customers |-> get_analytics.total_customers,
          total_actions |-> get_analytics.total_actions,
          total_handoffs |-> get_analytics.total_handoffs]
    ELSE [type |-> "in_memory", status |-> "active",
          entries |-> Cardinality(DOMAIN lt_memory_store)]

\* EpisodicMemory.get_status
EpisodicStatus ==
    [type |-> "in_memory", status |-> "active", episode_count |-> Len(episodes),
     embedding_model |-> "mock"]

\* SemanticMemory.get_status: `elif self.graph` is the truth value of the graph
SemanticStatus ==
    IF GraphTruthy(graph)
    THEN [type |-> "networkx", status |-> "active",
          concept_count |-> Len(graph.nodes),
          relationship_count |-> Len(GraphEdges(graph))]
    ELSE [type |-> "none", status |-> "unavailable"]

GetMemoryStatus ==
    /\ running = NoneVal
    /\ ret' = [op |-> "get_memory_status",
               result |-> [short_term |-> ShortTermStatus,
                           long_term |-> LongTermStatus,
                           episodic |-> EpisodicStatus,
                           semantic |-> SemanticStatus],
               at |-> now]
    /\ UNCHANGED <<now, transportVars, shortVars, longVars, knowledgeVars, procVars, maint>>

(***************************************************************************)
(* WebSocketManager.  Each websocket is served by its own handler task,    *)
(* which calls connect_agent once; send_to_agent is called by the task of  *)
(* a request.  A call keeps the event loop until it awaits send_text, so   *)
(* other calls run between two sends.  A message queue is a list object:   *)
(* a task that iterates over it sees what is appended to it, also after    *)
(* the list was removed from message_queue.  Messages are numbered, so a   *)
(* list is known by its first message.                                     *)
(***************************************************************************)
Agents == {"engagement", "campaign"}
Sockets == {"ws1", "ws2"}
RequestTask == "request"
MaxMessages == 3

WsIdle == [pc |-> "idle"]

Message(n) == [type |-> "handoff", id |-> n]

\* the list a delivering task iterates over is still the queue of its agent
SameList(items, agent_id) ==
    /\ agent_id \in DOMAIN message_queue
    /\ message_queue[agent_id][1] = items[1]

\* the list a delivering task iterates over, as it is now
QueueView(task) ==
    IF SameList(ws_task[task].items, ws_task[task].agent)
    THEN message_queue[ws_task[task].agent]
    ELSE ws_task[task].items

\* connect_agent, up to the first `await websocket.send_text`
ConnectAgentCall(websocket, agent_id) ==
    /\ ws_task[websocket].pc = "idle"
    /\ websocket \notin DOMAIN ws_sent
    /\ active_connections' = DictSet(active_connections, agent_id, websocket)
    /\ agent_metadata' = DictSet(agent_metadata, agent_id,
                                 [connected_at |-> now, last_seen |-> now,
                                  message_count |-> 0])
    /\ IF agent_id \in DOMAIN message_queue
       THEN /\ ws_sent' = DictSet(ws_sent, websocket, <<message_queue[agent_id][1]>>)
            /\ ws_task' = [ws_task EXCEPT ![websocket] =
                              [pc |-> "deliver", agent |-> agent_id,
                               items |-> message_queue[agent_id], i |-> 1]]
            /\ UNCHANGED ret
       ELSE /\ ws_sent' = DictSet(ws_sent, websocket, <<>>)
            /\ UNCHANGED ws_task
            /\ ret' = [op |-> "connect_agent", agent |-> agent_id,
                       websocket |-> websocket, raised |-> FALSE]
    /\ UNCHANGED <<now, shortVars, longVars, knowledgeVars, procVars, maint,
                   message_queue, messages_sent, queued>>

\* connect_agent after a send_text: the next queued message, or the end of
\* the loop and `del self.message_queue[agent_id]`, a KeyError if the key is
\* gone.  An exception of send_text is logged and the loop goes on.
ConnectAgentResume(websocket) ==
    LET task == ws_task[websocket]
        view == QueueView(websocket)
    IN /\ task.pc = "deliver"
       /\ IF task.i < Len(view)
          THEN /\ ws_sent' = [ws_sent EXCEPT ![websocket] = Append(@, view[task.i + 1])]
               /\ ws_task' = [ws_task EXCEPT ![websocket] =
                                 [task EXCEPT !.i = task.i + 1, !.items = view]]
               /\ UNCHANGED <<message_queue, ret>>
          ELSE /\ message_queue' = DictDel(message_queue, {task.agent})
               /\ ws_task' =
                      [t \in DOMAIN ws_task |->
                          IF t = websocket THEN WsIdle
                          ELSE IF /\ ws_task[t].pc = "deliver"
                                  /\ ws_task[t].agent = task.agent
                                  /\ SameList(ws_task[t].items, task.agent)
                               THEN [ws_task[t] EXCEPT !.items = message_queue[task.agent]]
                               ELSE ws_task[t]]
               /\ ret' = [op |-> "connect_agent", agent |-> task.agent,
                          websocket |-> websocket,
                          raised |-> task.agent \notin DOMAIN message_queue]
               /\ UNCHANGED ws_sent
       /\ UNCHANGED <<now, shortVars, longVars, knowledgeVars, procVars, maint,
                      active_connections, agent_metadata, messages_sent, queued>>

\* disconnect_agent
DisconnectAgent(agent_id) ==
    /\ agent_id \in DOMAIN active_connections
    /\ active_connections' = DictDel(active_connections, {agent_id})
    /\ agent_metadata' = DictDel(agent_metadata, {agent_id})
    /\ ret' = [op |-> "disconnect_agent", agent |-> agent_id]
    /\ UNCHANGED <<now, shortVars, longVars, knowledgeVars, procVars, maint,
                   message_queue, ws_sent, ws_task, messages_sent, queued>>

\* send_to_agent: up to `await websocket.send_text` for a connected agent,
\* the whole call for one that is not
SendToAgent(agent_id) ==
    LET message == Message(messages_sent + 1)
        queued_message == DictSet(message, "queued_at", now)
    IN /\ messages_sent < MaxMessages
       /\ ws_task[RequestTask].pc = "idle"
       /\ messages_sent' = messages_sent + 1
       /\ IF agent_id \in DOMAIN active_connections
          THEN /\ ws_sent' = [ws_sent EXCEPT ![active_connections[agent_id]] =
                                 Append(@, message)]
               /\ ws_task' = [ws_task EXCEPT ![RequestTask] =
                                 [pc |-> "sent", agent |-> agent_id, message |-> message]]
               /\ UNCHANGED <<message_queue, queued, ret>>
          ELSE /\ message_queue' =
                      DictSet(message_queue, agent_id,
                              Append(DictGet(message_queue, agent_id, <<>>),
                                     queued_message))
               /\ queued' = [queued EXCEPT ![agent_id] = Append(@, queued_message)]
               /\ ret' = [op |-> "send_to_agent", agent |-> agent_id,
                          message |-> message, ok |-> FALSE, queued |-> TRUE]
               /\ UNCHANGED <<ws_sent, ws_task>>
       /\ UNCHANGED <<now, shortVars, longVars, knowledgeVars, procVars, maint,
                      active_connections, agent_metadata>>

\* send_to_agent after send_text: the metadata update; an exception of
\* send_text, or a KeyError for an agent disconnected meanwhile, ends in
\* disconnect_agent and False
SendToAgentResume(sent) ==
    LET task == ws_task[RequestTask]
        updated == sent /\ task.agent \in DOMAIN agent_metadata
    IN /\ task.pc = "sent"
       /\ IF updated
          THEN /\ agent_metadata' =
                      [agent_metadata EXCEPT ![task.agent] =
                          [@ EXCEPT !.last_seen = now,
                                    !.message_count = @ + 1]]
               /\ UNCHANGED active_connections
          ELSE /\ agent_metadata' = DictDel(agent_metadata, {task.agent})
               /\ active_connections' = DictDel(active_connections, {task.agent})
       /\ ws_task' = [ws_task EXCEPT ![RequestTask] = WsIdle]
       /\ ret' = [op |-> "send_to_agent", agent |-> task.agent,
                  message |-> task.message, ok |-> updated, queued |-> FALSE]
       /\ UNCHANGED <<now, shortVars, longVars, knowledgeVars, procVars, maint,
                      message_queue, ws_sent, messages_sent, queued>>

\* WebSocketManager.__init__
TransportInit ==
    /\ active_connections = <<>>
    /\ agent_metadata = <<>>
    /\ message_queue = <<>>
    /\ ws_sent = <<>>
    /\ ws_task = [t \in Sockets \cup {RequestTask} |-> WsIdle]
    /\ messages_sent = 0
    /\ queued = [a \in Agents |-> <<>>]

(***************************************************************************)
(* Initial state: the stores after initialize(), on either backing.        *)
(***************************************************************************)
Init ==
    /\ now = 0
    /\ redis_client \in BOOLEAN
    /\ memory_store = <<>>
    /\ redis_db = <<>>
    /\ last_store = [k \in ConversationIds |-> NoneVal]
    /\ connection_pool \in BOOLEAN
    /\ lt_memory_store = <<>>
    /\ customer_profiles = <<>>
    /\ agent_actions_log = <<>>
    /\ handoff_context_log = <<>>
    /\ episodes = <<>>
    /\ graph = SemanticInitialGraph
    /\ triples_stored = <<>>
    /\ proc = [p \in Procs |-> Idle]
    /\ maint = MaintSleeping
    /\ running = NoneVal
    /\ calls = 0
    /\ sst_calls = [c \in ConversationIds |-> 0]
    /\ clean = [c \in ConversationIds |-> TRUE]
    /\ call_writes = [c \in ConversationIds |-> 0]
    /\ ret = [op |-> "init"]
    /\ TransportInit

\* the ShortTermMemory interface, called directly
NextShortTerm ==
    \/ \E key \in ConversationIds, data \in StoreData, ttl \in TTLs : Store(key, data, ttl)
    \/ \E key \in ConversationIds : Get(key)
    \/ \E key \in ConversationIds : Delete(key)
    \/ CleanupExpired
    \/ GetAllActive
    \/ Tick

InitShortTerm == Init /\ ~connection_pool

SpecShortTerm == InitShortTerm /\ [][NextShortTerm]_vars

\* the coordinator's short-term calls; no code of the repository starts
\* run_memory_consolidation
Next ==
    \/ \E p \in Procs, c \in CallConversationIds, call \in StoreCalls :
              StoreShortTermCall(p, c, call[1], call[2], call[3])
    \/ \E p \in Procs : StoreShortTermStore(p)
    \/ \E p \in Procs : ConsolidateGet(p)
    \/ \E p \in Procs : ConsolidateStore(p)
    \/ \E p \in Procs, c \in CallConversationIds, u \in ContextUpdates :
              UpdateShortTermCall(p, c, u)
    \/ \E p \in Procs : UpdateShortTermStore(p)
    \/ \E c \in CallConversationIds : GetShortTerm(c)
    \/ Tick

Spec == Init /\ [][Next]_vars

\* the same calls while run_memory_consolidation runs as a background task
NextMaintained == Next \/ Maintenance

SpecMaintained == Init /\ [][NextMaintained]_vars

\* one caller's short-term writes while run_memory_consolidation cycles for
\* ever.  The event loop runs a task that is ready: a call that has begun
\* goes on, the maintenance task takes its next step, and the clock advances.
Caller == "p1"

CallSteps ==
    \/ StoreShortTermStore(Caller)
    \/ ConsolidateGet(Caller)
    \/ ConsolidateStore(Caller)
    \/ UpdateShortTermStore(Caller)

MaintenanceSteps ==
    \/ MaintenanceLoop
    \/ \E c \in ConversationIds : MaintenanceConsolidateGet(c)
    \/ MaintenanceConsolidateStore
    \/ MaintenanceMine

NextFairMaintenance ==
    \/ \E c \in CallConversationIds, call \in StoreCalls :
              StoreShortTermCall(Caller, c, call[1], call[2], call[3])
    \/ \E c \in CallConversationIds, u \in ContextUpdates : UpdateShortTermCall(Caller, c, u)
    \/ CallSteps
    \/ MaintenanceSteps
    \/ Tick
    \/ TickAwaiting

SpecFairMaintenance ==
    /\ Init
    /\ [][NextFairMaintenance]_vars
    /\ WF_vars(MaintenanceSteps)
    /\ WF_vars(CallSteps)
    /\ WF_vars(Tick)

\* an entry as the write before the threshold leaves it
EntryBeforeThreshold ==
    [conversation_id |-> "c1", lead_id |-> "L1", context |-> CtxEmail,
     last_updated |-> 0, interaction_count |-> short_to_long_threshold - 1]

\* two tasks calling store_short_term on a conversation that is one write
\* short of the threshold, the short-term store on Redis
NextRace ==
    \/ calls = 0 /\ Store("c1", EntryBeforeThreshold, NoneVal)
    \/ \E p \in Procs : StoreShortTermCall(p, "c1", "L1", CtxSms, NoneVal)
    \/ \E p \in Procs : StoreShortTermStore(p)
    \/ \E p \in Procs : ConsolidateGet(p)
    \/ \E p \in Procs : ConsolidateStore(p)

InitRace == Init /\ redis_client

\* store_short_term calls on a conversation that is one write short of the
\* threshold, while run_memory_consolidation cycles
NextRepeat ==
    \/ calls = 0 /\ running = NoneVal /\ Store("c1", EntryBeforeThreshold, NoneVal)
    \/ StoreShortTermCall(Caller, "c1", "L1", CtxSms, NoneVal)
    \/ StoreShortTermStore(Caller)
    \/ ConsolidateGet(Caller)
    \/ ConsolidateStore(Caller)
    \/ MaintenanceSteps
    \/ Tick

SpecRepeat == Init /\ [][NextRepeat]_vars

SpecRace == InitRace /\ [][NextRace]_vars

\* an entry as a write that reaches the threshold leaves it
FrequentEntry ==
    [conversation_id |-> "c1", lead_id |-> "L1", context |-> CtxEmail,
     last_updated |-> 0, interaction_count |-> short_to_long_threshold]

\* run_memory_consolidation cycling over short-term entries at the threshold
\* and the episodes agents report, every store in process
NextCycle ==
    \/ \E ttl \in {NoneVal, Some(TimeStep)} :
           running = NoneVal /\ Store("c1", FrequentEntry, ttl)
    \/ \E episode \in CycleEpisodes : StoreEpisodicMemory(episode)
    \/ MaintenanceSteps
    \/ Tick

\* the coordinator's episodic calls, with the maintenance task; the short-term
\* and the long-term store stay empty, on their in-process backing
InitKnowledge == Init /\ ~redis_client /\ ~connection_pool

SpecCycle == InitKnowledge /\ [][NextCycle]_vars

NextEpisodic ==
    \/ \E episode \in EpisodeInputs : StoreEpisodicMemory(episode)
    \/ \E search \in Searches : SearchEpisodicMemory(search[1], search[2], search[3])
    \/ MaintenanceScan
    \/ MaintenanceMine

SpecEpisodic == InitKnowledge /\ [][NextEpisodic]_vars

\* episodes that differ in the order of their context, or that name their
\* scenario among their actions: what is stored, found and mined from them
NextLearning ==
    \/ \E episode \in LearningEpisodes : StoreEpisodicMemory(episode)
    \/ \E agent_type \in {NoneVal, Some("lead_triage")} :
              SearchEpisodicMemory(QueryWeb, agent_type, DefaultLimit)
    \/ MaintenanceScan
    \/ MaintenanceMine

SpecLearning == InitKnowledge /\ [][NextLearning]_vars

\* the status query between writes to the tiers, on every combination of
\* short-term and long-term backing
NextStatus ==
    \/ \E key \in ConversationIds, data \in StoreData : Store(key, data, NoneVal)
    \/ StoreKnowledgeTriple("A", "enables", "B", 50)
    \/ GetMemoryStatus
    \/ Tick

SpecStatus == Init /\ [][NextStatus]_vars

\* the WebSocketManager calls of two websocket handlers and of requests
NextTransport ==
    \/ \E websocket \in Sockets, agent_id \in Agents : ConnectAgentCall(websocket, agent_id)
    \/ \E websocket \in Sockets : ConnectAgentResume(websocket)
    \/ \E agent_id \in Agents : DisconnectAgent(agent_id)
    \/ \E agent_id \in Agents : SendToAgent(agent_id)
    \/ \E sent \in BOOLEAN : SendToAgentResume(sent)

SpecTransport == InitKnowledge /\ [][NextTransport]_vars

\* the coordinator's semantic calls
NextSemantic ==
    \/ \E t \in TripleInputs : StoreKnowledgeTriple(t[1], t[2], t[3], t[4])
    \/ \E q \in TripleQueries : QuerySemanticMemory(q[1], q[2], q[3])
    \/ \E c \in Concepts, types \in RelationshipTypes, depth \in Depths :
              GetRelatedConcepts(c, types, depth)
    \/ Tick

SpecSemantic == InitKnowledge /\ [][NextSemantic]_vars

\* the coordinator's long-term calls, on either backing
NextLongTerm ==
    \/ \E lead_id \in LeadIds, preferences \in ProfilePreferences,
          interaction_history \in Histories(now) :
              StoreLongTerm(lead_id, preferences, interaction_history)
    \/ \E preferences \in ProfilePreferences : StoreLongTerm("", preferences, <<>>)
    \/ \E lead_id \in LeadIds : GetLongTerm(lead_id)
    \/ Tick

InitLongTerm == Init /\ ~redis_client

SpecLongTerm == InitLongTerm /\ [][NextLongTerm]_vars

\* store_short_term calls, with their consolidations, on a lead whose profile
\* may have been written by store_long_term
NextConsolidation ==
    \/ \E p \in Procs, c \in CallConversationIds, call \in StoreCalls :
              StoreShortTermCall(p, c, call[1], call[2], call[3])
    \/ \E p \in Procs : StoreShortTermStore(p)
    \/ \E p \in Procs : ConsolidateGet(p)
    \/ \E p \in Procs : ConsolidateStore(p)
    \/ \E preferences \in ProfilePreferences : StoreLongTerm("L1", preferences, <<>>)

SpecConsolidation == Init /\ [][NextConsolidation]_vars

\* the coordinator's log calls, on either long-term backing
NextLogs ==
    \/ \E a \in ActionInputs : LogAgentAction(a[1], a[2], a[3])
    \/ \E h \in HandoffInputs : StoreHandoffContext(h[1], h[2], h[3], h[4])
    \/ GetAnalytics
    \/ Tick

SpecLogs == InitLongTerm /\ [][NextLogs]_vars

\* SemanticMemory.get_related_concepts as a function of the graph it is
\* applied to: graphs with a chain, a diamond, a cycle, a self-loop and a
\* shortcut (an edge A -> C beside the path A -> B -> C)
Related(type) == [type |-> type, weight |-> 100]

AddEdges(edges) ==
    LET G[i \in 0..Len(edges)] ==
            IF i = 0 THEN EmptyGraph
            ELSE add_edge(G[i - 1], edges[i][1], edges[i][2], Related(edges[i][3]))
    IN G[Len(edges)]

TraversalGraphs ==
    {AddEdges(<< <<"A", "B", "enables">>, <<"B", "C", "enables">> >>),
     AddEdges(<< <<"A", "B", "enables">>, <<"A", "C", "enables">>,
                 <<"B", "D", "enables">>, <<"C", "D", "blocks">> >>),
     AddEdges(<< <<"A", "B", "enables">>, <<"B", "A", "enables">> >>),
     AddEdges(<< <<"A", "A", "enables">>, <<"A", "B", "blocks">> >>),
     AddEdges(<< <<"A", "B", "enables">>, <<"A", "C", "enables">>,
                 <<"B", "C", "enables">> >>)}
TraversalConcepts == {"A", "B", "Z"}
MaxDepth == 3

InitTraversal ==
    /\ now = 0
    /\ redis_client = FALSE
    /\ memory_store = <<>>
    /\ redis_db = <<>>
    /\ last_store = [k \in ConversationIds |-> NoneVal]
    /\ connection_pool = FALSE
    /\ lt_memory_store = <<>>
    /\ customer_profiles = <<>>
    /\ agent_actions_log = <<>>
    /\ handoff_context_log = <<>>
    /\ episodes = <<>>
    /\ graph \in TraversalGraphs
    /\ triples_stored = <<>>
    /\ proc = [p \in Procs |-> Idle]
    /\ maint = MaintSleeping
    /\ running = NoneVal
    /\ calls = 0
    /\ sst_calls = [c \in ConversationIds |-> 0]
    /\ clean = [c \in ConversationIds |-> TRUE]
    /\ call_writes = [c \in ConversationIds |-> 0]
    /\ ret = [op |-> "init"]
    /\ TransportInit

NextTraversal ==
    \/ \E c \in TraversalConcepts, types \in RelationshipTypes, depth \in 0..MaxDepth :
              GetRelatedConcepts(c, types, depth)
    \/ Tick

SpecTraversal == InitTraversal /\ [][NextTraversal]_vars

\* the ShortTermMemory interface on a Redis server that answered at
\* initialize() and may not answer a later call
NextOutage ==
    \/ \E key \in ConversationIds, data \in StoreData, ttl \in TTLs : Store(key, data, ttl)
    \/ \E key \in ConversationIds, data \in StoreData, ttl \in TTLs :
              StoreUnreachable(key, data, ttl)
    \/ \E key \in ConversationIds : Get(key)
    \/ \E key \in ConversationIds : GetUnreachable(key)
    \/ \E key \in ConversationIds : Delete(key)
    \/ GetAllActive
    \/ Tick

InitOutage == Init /\ redis_client /\ ~connection_pool

SpecOutage == InitOutage /\ [][NextOutage]_vars

\* the same calls on an instance of each backing
NextBackings ==
    \/ \E key \in ConversationIds, data \in StoreData, ttl \in BackingTTLs :
              StoreBoth(key, data, ttl)
    \/ \E key \in ConversationIds : GetBoth(key)
    \/ \E key \in ConversationIds : DeleteBoth(key)
    \/ GetAllActiveBoth
    \/ CleanupExpiredBoth
    \/ Tick

InitBackings == Init /\ redis_client /\ ~connection_pool

SpecBackings == InitBackings /\ [][NextBackings]_vars

(***************************************************************************)
(* Properties of the ShortTermMemory interface (SpecShortTerm).            *)
(***************************************************************************)
\* The latest store() of the key the last get() read, if no delete followed it
GetAfterStore == ret.op = "get" /\ last_store[ret.key] # NoneVal
StoredBefore == TheValue(last_store[ret.key])
StoredWithTTL == StoredBefore.ttl # NoneVal /\ TheValue(StoredBefore.ttl) > 0
StoredExpiry == StoredBefore.at + TheValue(StoredBefore.ttl)

\* C1: a get(key) issued after store(key, data, ttl) with ttl > 0, before the
\* ttl elapses and with no write to key in between, returns a value equal to
\* the JSON-representable data of that latest store.
C1_RoundTrip ==
    (GetAfterStore /\ StoredWithTTL /\ ret.at < StoredExpiry
        /\ JsonRepresentable(StoredBefore.data))
    => ret.result = Some(StoredBefore.data)

\* C1 witness: a get that reads, some time after it was written, the data of a
\* store that overwrote an earlier value of the key.
C1_Witness ==
    /\ GetAfterStore /\ StoredWithTTL /\ ret.at < StoredExpiry
    /\ ret.at > StoredBefore.at
    /\ JsonRepresentable(StoredBefore.data)
    /\ DictGet(StoredBefore.data, "context", <<>>) = CtxSms
    /\ ret.result = Some(StoredBefore.data)

\* C2: once more than ttl seconds have passed since the latest store(key, data,
\* ttl), every get(key) returns absent and leaves no entry for key in the
\* backing, until key is stored again; no sweep is needed for that.
C2_ExpiryIdempotent ==
    (GetAfterStore /\ StoredWithTTL /\ ret.at > StoredExpiry)
    => /\ ret.result = NoneVal
       /\ ret.key \notin DOMAIN memory_store
       /\ ret.key \notin DOMAIN redis_db

\* C2 witness: a get on the in-process backing after the ttl has passed, at a
\* time when the key is absent.
C2_Witness ==
    /\ GetAfterStore /\ StoredWithTTL /\ ret.at > StoredExpiry
    /\ ~redis_client
    /\ ret.result = NoneVal

(***************************************************************************)
(* Properties of the coordinator's short-term calls.                       *)
(***************************************************************************)
\* the long-term record of the lead named by the latest write of conversation c
ProfileOf(c) == LongTermGet(TheValue(last_store[c]).data.lead_id)

StoredPreferences(c) == _extract_preferences(TheValue(last_store[c]).data.context)

\* C3: in a run of sequential store_short_term calls on one conversation, each
\* finding the entry of the one before, with a lead, the calls before the
\* threshold-th write no long-term record and the threshold-th call writes
\* exactly one, which holds the preferences extracted from its context.
C3_ConsolidationAtThreshold ==
    \A c \in CallConversationIds :
        clean[c] =>
            /\ sst_calls[c] < short_to_long_threshold => call_writes[c] = 0
            /\ sst_calls[c] = short_to_long_threshold =>
                  /\ call_writes[c] = 1
                  /\ ~InProgress(c) =>
                        /\ ProfileOf(c) # NoneVal
                        /\ \A k \in DOMAIN StoredPreferences(c) :
                              /\ k \in DOMAIN TheValue(ProfileOf(c)).preferences
                              /\ TheValue(ProfileOf(c)).preferences[k]
                                     = StoredPreferences(c)[k]

C3_Witness ==
    /\ clean["c1"]
    /\ sst_calls["c1"] = short_to_long_threshold
    /\ call_writes["c1"] = 1
    /\ ~InProgress("c1")
    /\ DOMAIN StoredPreferences("c1") # {}

\* interaction_count of the live entry of conversation c, 0 when there is none
LiveCount(c) ==
    IF ShortTermGet(c, now) = NoneVal THEN 0
    ELSE TheValue(ShortTermGet(c, now)).interaction_count

\* C4: while the entry of a conversation stays live, no step lowers its
\* interaction_count.
C4_CountMonotone ==
    [][\A c \in CallConversationIds :
          (LiveCount(c) > 0 /\ LiveCount(c)' > 0) => LiveCount(c)' >= LiveCount(c)]_vars

\* C5: an entry whose latest write named no ttl of its own is no longer served
\* once more than the default ttl has passed since that write.
C5_DefaultTTLApplies ==
    \A c \in CallConversationIds :
        (/\ ret.op = "get_short_term"
         /\ ret.conversation_id = c
         /\ ret.result # NoneVal
         /\ last_store[c] # NoneVal
         /\ TheValue(last_store[c]).ttl \in {NoneVal, Some(DefaultTTL)})
        => ret.at <= TheValue(last_store[c]).at + DefaultTTL

(***************************************************************************)
(* Properties of the episodic store.                                       *)
(***************************************************************************)
BelowThreshold(episode) == DictGet(episode, "outcome_score", 0) < episodic_success_threshold

C6_RejectedStoreStep ==
    (ret'.op = "store_episodic_memory" /\ BelowThreshold(ret'.episode))
        => (~ret'.ok /\ episodes' = episodes)

C6_NothingBelowThreshold ==
    /\ \A i \in 1..Len(episodes) : ~BelowThreshold(episodes[i].metadata)
    /\ ret.op = "search_episodic_memory" =>
           \A i \in 1..Len(ret.result) : ~BelowThreshold(ret.result[i])

\* C6: store_episodic_memory of an episode whose outcome_score is under the
\* threshold, or missing, returns false and leaves the store as it was; the
\* store never holds and a search never returns such an episode.
C6_ThresholdEnforcement == [][C6_RejectedStoreStep]_vars /\ []C6_NothingBelowThreshold

C6_Witness ==
    /\ ret.op = "store_episodic_memory"
    /\ "outcome_score" \notin DOMAIN ret.episode
    /\ ~ret.ok
    /\ Len(episodes) > 0

C10_SameTextSameVector ==
    /\ \A i \in 1..Len(episodes) :
          /\ Len(episodes[i].embedding) = EmbeddingDim
          /\ \A j \in 1..Len(episodes) :
                episodes[i].text = episodes[j].text
                    => episodes[i].embedding = episodes[j].embedding
    /\ ret.op = "search_episodic_memory" =>
          /\ Len(ret.query_embedding) = EmbeddingDim
          /\ \A i \in 1..Len(episodes) :
                episodes[i].text = ret.query_text
                    => episodes[i].embedding = ret.query_embedding

C10_SearchStep ==
    (ret'.op = "search_episodic_memory" /\ ret' # ret) => episodes' = episodes

Stored(subject, predicate, obj) == <<subject, predicate, obj>> \in DOMAIN triples_stored

Reports(result, concept, distance) ==
    \E i \in 1..Len(result) : result[i].concept = concept /\ result[i].distance = distance

Names(result, concept) == \E i \in 1..Len(result) : result[i].concept = concept

\* C7: once A -enables-> B and B -enables-> C are stored, a traversal from A
\* to depth 2 reports B at distance 1 and C at distance 2 and not A, and one
\* restricted to another relationship type reports neither B nor C.
C7_Traversal ==
    (/\ ret.op = "get_related_concepts"
     /\ ret.concept = "A"
     /\ ret.depth = 2
     /\ Stored("A", "enables", "B")
     /\ Stored("B", "enables", "C"))
    => IF ret.relationship_types = {"blocks"}
       THEN ~Names(ret.result, "B") /\ ~Names(ret.result, "C")
       ELSE /\ Reports(ret.result, "B", 1)
            /\ Reports(ret.result, "C", 2)
            /\ ~Names(ret.result, "A")

\* C8: a query for a stored (subject, predicate, object) returns exactly one
\* triple, and it carries the weight stored last.
C8_TripleUpsert ==
    (/\ ret.op = "query_semantic_memory"
     /\ ret.subject # NoneVal /\ ret.predicate # NoneVal /\ ret.object # NoneVal
     /\ Stored(TheValue(ret.subject), TheValue(ret.predicate), TheValue(ret.object)))
    => /\ Len(ret.result) = 1
       /\ ret.result[1].weight
              = triples_stored[<<TheValue(ret.subject), TheValue(ret.predicate),
                                 TheValue(ret.object)>>]

\* The last call is a query_triples() without any filter
QueryAll ==
    /\ ret.op = "query_semantic_memory"
    /\ ret.subject = NoneVal /\ ret.predicate = NoneVal /\ ret.object = NoneVal

\* C15: with no graph database and before any triple is stored, an unfiltered
\* query returns the seed ontology, so it is not empty, and a traversal from
\* email_marketing to depth 2 reports lead_nurturing at distance 1 and
\* conversion at distance 2
C15_SeedOntology ==
    triples_stored = <<>> =>
        /\ QueryAll => ret.result # <<>>
        /\ (/\ ret.op = "get_related_concepts"
            /\ ret.concept = "email_marketing"
            /\ ret.relationship_types = {}
            /\ ret.depth = 2)
           => /\ Reports(ret.result, "lead_nurturing", 1)
              /\ Reports(ret.result, "conversion", 2)

Returns(result, subject, predicate, obj) ==
    \E i \in 1..Len(result) :
        /\ result[i].subject = subject
        /\ result[i].predicate = predicate
        /\ result[i].object = obj
        /\ result[i].weight = triples_stored[<<subject, predicate, obj>>]

\* C17: two triples with the same subject and object and different predicates
\* are two triples: once (C, enables, A) and (C, blocks, A) are stored, a query
\* for subject C and object A returns both, each with its own weight
C17_NaturalKey ==
    (/\ ret.op = "query_semantic_memory"
     /\ ret.subject = Some("C") /\ ret.predicate = NoneVal /\ ret.object = Some("A")
     /\ Stored("C", "enables", "A")
     /\ Stored("C", "blocks", "A"))
    => /\ Returns(ret.result, "C", "enables", "A")
       /\ Returns(ret.result, "C", "blocks", "A")

(***************************************************************************)
(* Properties of the two backings side by side (SpecBackings).             *)
(***************************************************************************)
\* C18: the two backings cannot be told apart through store, get, delete and
\* get_all_active as time passes: the same call returns the same value on
\* both, the boolean of a delete on an expired key that was not swept included
C18_BackingsEquivalent ==
    ret.op \in {"store", "get", "delete", "get_all_active"} => ret.mem = ret.redis

(***************************************************************************)
(* Properties of the coordinator's long-term calls (SpecLongTerm).         *)
(***************************************************************************)
\* The last call is a store_long_term that returned True
StoreLongTermDone == ret.op = "store_long_term" /\ ~ret.raised /\ ret.ok

\* the profile of the lead of the last call, as get_long_term returns it
StoredProfile == TheValue(LongTermGet(ret.lead_id))

\* the history of the last store_long_term is one interaction of the day of
\* the call
OneInteractionToday ==
    /\ Len(ret.interaction_history) = 1
    /\ ret.interaction_history[1].timestamp <= ret.at
    /\ ret.at - ret.interaction_history[1].timestamp < SecondsPerDay

\* C11: a profile stored with an empty interaction history has rfm_score 0.0,
\* and a profile stored with exactly one interaction timestamped on the day of
\* the call has rfm_score 0.533 (recency 1.0, frequency 0.1, monetary 0.5),
\* scores being in thousandths
C11_RfmValues ==
    StoreLongTermDone =>
        /\ ret.interaction_history = <<>> => StoredProfile.rfm_score = 0
        /\ OneInteractionToday => StoredProfile.rfm_score = 533

C11_Witness == StoreLongTermDone /\ OneInteractionToday /\ ret.at > 0

\* C12: store_long_term on a lead that has a profile merges: a preference key
\* of the profile that the call does not mention keeps its value, and the
\* stored interaction history is the previous one followed by the call's
\* entries
C12_UpsertMerges ==
    (StoreLongTermDone /\ ret.before # NoneVal) =>
        LET previous == TheValue(ret.before)
        IN /\ \A k \in DOMAIN previous.preferences \ DOMAIN ret.preferences :
                  /\ k \in DOMAIN StoredProfile.preferences
                  /\ StoredProfile.preferences[k] = previous.preferences[k]
           /\ StoredProfile.interaction_history
                  = previous.interaction_history \o ret.interaction_history

\* C13: no coordinator storage operation raises to its caller, whatever the
\* input: the last long-term call returned a value
C13_NoStorageOperationRaises ==
    ret.op \in {"store_long_term", "get_long_term"} => ~ret.raised

\* C20: the rfm_score of every stored profile is between 0 and 1 (scores in
\* thousandths), on either backing, whatever interaction history was passed
C20_RfmInUnitInterval ==
    /\ \A lead_id \in DOMAIN lt_memory_store :
           /\ lt_memory_store[lead_id].rfm_score >= 0
           /\ lt_memory_store[lead_id].rfm_score <= 1000
    /\ \A lead_id \in DOMAIN customer_profiles :
           /\ customer_profiles[lead_id].rfm_score >= 0
           /\ customer_profiles[lead_id].rfm_score <= 1000

(***************************************************************************)
(* Reads of the ShortTermMemory interface (SpecShortTerm).                 *)
(***************************************************************************)
\* C19: at every moment get_all_active() holds a key exactly when get(key)
\* returns a value, and then with the same data; an entry whose time to live
\* has elapsed is in neither, swept or not
C19_ActiveIffGet ==
    \A key \in ConversationIds :
        /\ key \in DOMAIN ShortTermActive(now) <=> ShortTermGet(key, now) # NoneVal
        /\ key \in DOMAIN ShortTermActive(now)
               => ShortTermActive(now)[key] = TheValue(ShortTermGet(key, now))

(***************************************************************************)
(* Calls on a server that stopped answering (SpecOutage).                  *)
(***************************************************************************)
\* The last call is a store that returned False: its backing call failed
StoreFailed == ret.op = "store" /\ ~ret.ok

\* C14: once a backing call has failed after initialization the tier works on
\* a local store: the store that follows a failed store returns True, and a
\* get of its key then returns a value
C14_DegradesAtCallTime ==
    [][(StoreFailed /\ ret'.op = "store" /\ ret' # ret)
          => (ret'.ok /\ ShortTermGet(ret.key, now)' # NoneVal)]_vars

(***************************************************************************)
(* Invariants of the stored records.                                       *)
(***************************************************************************)
\* C21: the long-term store holds no profile whose lead_id is empty, on
\* either backing, whatever coordinator operations were called
C21_LeadIdNonEmpty ==
    /\ \A lead_id \in DOMAIN lt_memory_store :
           lead_id # "" /\ lt_memory_store[lead_id].lead_id # ""
    /\ \A lead_id \in DOMAIN customer_profiles :
           lead_id # "" /\ customer_profiles[lead_id].lead_id # ""

(***************************************************************************)
(* Properties of what is learnt from episodes (SpecLearning).  No caller   *)
(* stores a triple there: every stored triple was mined.                   *)
(***************************************************************************)
\* C22: relationship mining never stores a triple whose subject is its
\* object, whatever episodes are stored: among the triples store_triple
\* accepted from the maintenance cycle none is a self-loop
C22_NoMinedSelfLoop ==
    \A triple \in DOMAIN triples_stored : triple[1] # triple[3]

\* the (key, value) pairs of a context, whatever their order
ContextPairs(episode) == SeqToSet(DictGet(episode, "context", <<>>))

SameContent(a, b) ==
    /\ DictGet(a, "scenario", "") = DictGet(b, "scenario", "")
    /\ ContextPairs(a) = ContextPairs(b)
    /\ DictGet(a, "action_sequence", <<>>) = DictGet(b, "action_sequence", <<>>)

\* C23: two stored episodes with the same scenario, the same set of context
\* pairs and the same action sequence have the same text and the same
\* embedding
C23_ContentDeterminesEmbedding ==
    \A i, j \in 1..Len(episodes) :
        SameContent(episodes[i].metadata, episodes[j].metadata)
            => /\ episodes[i].text = episodes[j].text
               /\ episodes[i].embedding = episodes[j].embedding

\* C24: every episode returned by a search filtered on agent_type T has
\* agent_type T; an episode with another agent_type or with none is not
\* returned
C24_ExactMatchFilter ==
    (ret.op = "search_episodic_memory" /\ ret.agent_type # NoneVal) =>
        \A i \in 1..Len(ret.result) :
            /\ "agent_type" \in DOMAIN ret.result[i]
            /\ ret.result[i].agent_type = TheValue(ret.agent_type)

(***************************************************************************)
(* Properties of the action log and the handoff log (SpecLogs).            *)
(***************************************************************************)
\* C25: on either long-term backing, a log_agent_action or a
\* store_handoff_context call that returns True appends exactly its entry to
\* its log and changes no entry that was there
C25_LogsAppendOnly ==
    [][/\ (ret'.op = "log_agent_action" /\ ret' # ret /\ ret'.ok)
           => agent_actions_log' = Append(agent_actions_log, ret'.entry)
       /\ (ret'.op = "store_handoff_context" /\ ret' # ret /\ ret'.ok)
           => handoff_context_log' = Append(handoff_context_log, ret'.entry)]_vars

(***************************************************************************)
(* Properties of the status query (SpecStatus).  A tier is reported as     *)
(* degraded by status "active" (served in process) and as on its primary   *)
(* store by status "connected".                                            *)
(***************************************************************************)
\* C26: get_memory_status reports each tier as degraded exactly when the tier
\* is served by its in-process fallback, and as connected when it is on its
\* primary store; a fallback that holds no data is still reported as active
C26_StatusReportsDegraded ==
    ret.op = "get_memory_status" =>
        /\ ret.result.short_term.status = (IF redis_client THEN "connected" ELSE "active")
        /\ ret.result.long_term.status = (IF connection_pool THEN "connected" ELSE "active")
        /\ ret.result.episodic.status = "active"
        /\ ret.result.semantic.status = "active"

(***************************************************************************)
(* Properties of the WebSocketManager (SpecTransport).                     *)
(***************************************************************************)
Holds(list, message) == \E i \in 1..Len(list) : list[i] = message

\* a delivering task for the agent still has the message ahead of it
ToBeDelivered(agent_id, message) ==
    \E t \in Sockets :
        /\ ws_task[t].pc = "deliver"
        /\ ws_task[t].agent = agent_id
        /\ \E i \in (ws_task[t].i + 1)..Len(QueueView(t)) : QueueView(t)[i] = message

\* the queue of the agent holds the messages queued last for it, in order
IsSuffix(list, all) ==
    /\ Len(list) <= Len(all)
    /\ \A i \in 1..Len(list) : list[i] = all[Len(all) - Len(list) + i]

\* C27: a message sent to an agent that has no active connection goes to the
\* queue of that agent and of no other; a queued message stays in the queue
\* until a connect_agent of its agent passes it to send_text, the queued
\* messages reach a websocket in the order in which they were queued, and the
\* queue of the agent is gone when connect_agent returns
C27_PerRecipientQueue ==
    /\ \A a \in DOMAIN message_queue : IsSuffix(message_queue[a], queued[a])
    /\ \A a \in Agents : \A i \in 1..Len(queued[a]) :
           \/ a \in DOMAIN message_queue /\ Holds(message_queue[a], queued[a][i])
           \/ \E w \in DOMAIN ws_sent : Holds(ws_sent[w], queued[a][i])
           \/ ToBeDelivered(a, queued[a][i])
    /\ \A w \in DOMAIN ws_sent : \A i, j \in 1..Len(ws_sent[w]) :
           (/\ i < j
            /\ "queued_at" \in DOMAIN ws_sent[w][i]
            /\ "queued_at" \in DOMAIN ws_sent[w][j])
           => ws_sent[w][i].id < ws_sent[w][j].id

(***************************************************************************)
(* Properties of one consolidation (Spec).                                 *)
(***************************************************************************)
\* the preference keys a context sets
SetKeys(context) == {PreferenceKey(k) : k \in DOMAIN context \cap RecognizedKeys}

ContextKeyOf(pk) == IF pk = "communication_channel" THEN "preferred_channel" ELSE pk

\* the profile `after` is the profile `read` changed by one consolidation of
\* conversation c with the short-term entry `data`
ConsolidationEffect(c, data, read, after) ==
    LET preferences == IF read = NoneVal THEN <<>> ELSE TheValue(read).preferences
        history == IF read = NoneVal THEN <<>> ELSE TheValue(read).interaction_history
    IN /\ DOMAIN after.preferences = DOMAIN preferences \cup SetKeys(data.context)
       /\ \A pk \in SetKeys(data.context) :
              after.preferences[pk] = data.context[ContextKeyOf(pk)]
       /\ \A pk \in DOMAIN preferences \ SetKeys(data.context) :
              after.preferences[pk] = preferences[pk]
       /\ Len(after.interaction_history) = Len(history) + 1
       /\ SubSeq(after.interaction_history, 1, Len(history)) = history
       /\ after.interaction_history[Len(history) + 1].conversation_id = c
       /\ after.interaction_history[Len(history) + 1].interaction_count
              = data.interaction_count

ConsolidationStep(p) == proc[p].pc = "con_store" /\ proc'[p].pc = "idle"

\* the profile of the lead after the step
ProfileAfter(lead_id) ==
    IF connection_pool'
    THEN IF lead_id \in DOMAIN customer_profiles'
         THEN Some(customer_profiles'[lead_id]) ELSE NoneVal
    ELSE IF lead_id \in DOMAIN lt_memory_store'
         THEN Some(lt_memory_store'[lead_id]) ELSE NoneVal

HasRecordAfter(lead_id, c, interaction_count) ==
    /\ ProfileAfter(lead_id) # NoneVal
    /\ \E i \in 1..Len(TheValue(ProfileAfter(lead_id)).interaction_history) :
           /\ TheValue(ProfileAfter(lead_id)).interaction_history[i].conversation_id = c
           /\ TheValue(ProfileAfter(lead_id)).interaction_history[i].interaction_count
                  = interaction_count

\* store_short_term returns in this step, having written entry data
StoreShortTermReturns(p) == proc[p].pc \in {"sst_store", "con_store"} /\ proc'[p].pc = "idle"

\* update_short_term returns in this step, having written its entry
UpdateShortTermReturns(p) == proc[p].pc = "ust_store" /\ proc'[p].pc = "idle"

\* C29: when a store_short_term or an update_short_term writes a conversation
\* of a lead with interaction_count equal to the threshold, the profile of the
\* lead holds the record of that conversation when the call returns
C29_WriteAtThresholdConsolidates ==
    [][\A p \in Procs :
          /\ (/\ StoreShortTermReturns(p)
              /\ proc[p].memory_data.interaction_count = short_to_long_threshold
              /\ proc[p].memory_data.lead_id # "")
             => HasRecordAfter(proc[p].memory_data.lead_id, proc[p].conversation_id,
                               short_to_long_threshold)
          /\ (/\ UpdateShortTermReturns(p)
              /\ proc[p].existing.interaction_count = short_to_long_threshold
              /\ proc[p].existing.lead_id # "")
             => HasRecordAfter(proc[p].existing.lead_id, proc[p].conversation_id,
                               short_to_long_threshold)]_vars

(***************************************************************************)
(* Properties of the maintenance cycle (SpecFairMaintenance).              *)
(***************************************************************************)
\* the conversation has a live entry with a lead, at or over the threshold
Frequent(c) ==
    /\ ShortTermGet(c, now) # NoneVal
    /\ DictGet(TheValue(ShortTermGet(c, now)), "interaction_count", 0)
           >= short_to_long_threshold
    /\ DictGet(TheValue(ShortTermGet(c, now)), "lead_id", "") # ""

\* the profile of the conversation's lead holds a record of the conversation
Consolidated(c) ==
    /\ ShortTermGet(c, now) # NoneVal
    /\ LET lead_id == DictGet(TheValue(ShortTermGet(c, now)), "lead_id", "")
       IN /\ LongTermGet(lead_id) # NoneVal
          /\ \E i \in 1..Len(TheValue(LongTermGet(lead_id)).interaction_history) :
                 TheValue(LongTermGet(lead_id)).interaction_history[i].conversation_id = c

\* the maintenance task writes the profile for a conversation in this step
MaintenanceWrites == maint.pc = "write" /\ maint'.pc = "consolidate"

\* the clock can still advance
TimeLeft == now < MaxNow

EventuallyConsolidated ==
    \A c \in CallConversationIds :
        (Frequent(c) /\ TimeLeft) ~> (Consolidated(c) \/ ~Frequent(c))

OnlyFrequentConsolidated ==
    [][MaintenanceWrites => Frequent(maint.conversation_id)]_vars

\* C30: with the maintenance task running, a conversation with a lead whose
\* entry stays live at or over the threshold is eventually consolidated into
\* the profile of its lead, with no further write; and the maintenance task
\* writes no profile for a conversation whose entry is expired or below the
\* threshold
C30_EventualConsolidation == EventuallyConsolidated /\ OnlyFrequentConsolidated

(***************************************************************************)
(* Properties of the maintenance loop (SpecCycle).                         *)
(***************************************************************************)
CycleStarts == maint.pc = "sleep" /\ maint'.pc # "sleep"

CycleEnds == maint.pc # "sleep" /\ maint'.pc = "sleep"

\* the (subject, predicate, object) keys the step has stored
NewlyStored == DOMAIN triples_stored' \ DOMAIN triples_stored

\* the keys of the pairs of the recent successes that come before the first
\* one with an action_sequence of None
ReachedPairs ==
    LET recent == get_recent_successes(episodes, RecentSuccessLimit)
        reached == {i \in 1..Len(recent) :
                       \A j \in 1..i : ~ExtractConceptsRaises(recent[j])}
    IN UNION {{<<_extract_concepts(recent[i])[j].subject, "related_to",
                 _extract_concepts(recent[i])[j].object>> :
                  j \in 1..Len(_extract_concepts(recent[i]))} : i \in reached}

\* C31: a cycle of the maintenance task starts no sooner than the wait set by
\* the cycle before, and with the sweep; it writes profiles only between the
\* sweep and the mining; the mining comes last, when no entry is left to
\* consolidate; a cycle that did not raise is followed by a wait of 300 s; a
\* mining that raises stores nothing for the episodes it has not reached and
\* is followed by a wait of 60 s; and the task is always asleep or in a cycle
C31_MaintenanceLoop ==
    [][/\ CycleStarts =>
             /\ now >= maint.wake_at
             /\ maint'.pc = "consolidate"
             /\ MemExpiredKeys(memory_store', now) = {}
       /\ CycleEnds =>
             /\ maint.pc = "consolidate"
             /\ maint.pending = {}
             /\ maint'.wake_at = now + (IF MiningRaises(episodes) THEN 60 ELSE 300)
             /\ NewlyStored \subseteq ReachedPairs
       /\ maint'.pc \in {"sleep", "consolidate", "write"}]_vars

\* a cycle has begun after the wait of a cycle whose mining raised, before an
\* episode it did not reach
C31_Witness ==
    /\ maint.pc = "consolidate"
    /\ maint.wake_at = RetryInterval
    /\ now >= TimeStep
    /\ Len(episodes) = 2
    /\ ExtractConceptsRaises(episodes[1].metadata)
    /\ _extract_concepts(episodes[2].metadata) # <<>>
    /\ triples_stored = <<>>

(***************************************************************************)
(* Properties of the relationship mining (SpecLearning).                   *)
(***************************************************************************)
\* the outcome scores of the recent successes that pair subject with obj
ProducingScores(recent, subject, obj) ==
    {DictGet(recent[i], "outcome_score", MinedWeightDefault) :
        i \in {k \in 1..Len(recent) :
                  \E j \in 1..Len(_extract_concepts(recent[k])) :
                      /\ _extract_concepts(recent[k])[j].subject = subject
                      /\ _extract_concepts(recent[k])[j].object = obj}}

\* the graph holds a related_to edge for the pair, weighted by one of the
\* episodes that produced it
HoldsMinedEdge(g, recent, subject, obj) ==
    /\ <<subject, obj>> \in DOMAIN g.attr
    /\ g.attr[<<subject, obj>>].type = "related_to"
    /\ g.attr[<<subject, obj>>].weight \in ProducingScores(recent, subject, obj)

\* C32: when a maintenance cycle completes on the in-process semantic store,
\* the store holds, for every recent successful episode, a related_to edge
\* from its scenario to each of its actions and from its lead_source to its
\* outcome, with the outcome_score of an episode that produced the edge
C32_MinedEdgesStored ==
    [][(CycleEnds /\ ~MiningRaises(episodes)) =>
          LET recent == get_recent_successes(episodes, RecentSuccessLimit)
          IN \A i \in 1..Len(recent) : \A j \in 1..Len(_extract_concepts(recent[i])) :
                 HoldsMinedEdge(graph', recent,
                                _extract_concepts(recent[i])[j].subject,
                                _extract_concepts(recent[i])[j].object)]_vars

(***************************************************************************)
(* Properties of concurrent writers (SpecRace).                            *)
(***************************************************************************)
\* store_short_term of task p writes its entry in this step
WritesEntry(p) == proc[p].pc = "sst_store" /\ proc'[p].pc # "sst_store"

\* the interaction_count of the entry of the conversation after the step
CountAfter(c) ==
    IF redis_client'
    THEN json_loads(redis_db'[c].data).interaction_count
    ELSE json_loads(memory_store'[c].data).interaction_count

\* C33: store_short_term writes the count it computed from its own read over
\* whatever the entry holds by then, so of two calls that read the same entry
\* the later write replaces the earlier and the count grows by one; each call
\* returns true, and each call that computed a count at or over the
\* threshold returns only after its own consolidation write
C33_WritersNotSerialized ==
    [][\A p \in Procs :
          /\ WritesEntry(p) =>
                CountAfter(proc[p].conversation_id) = proc[p].memory_data.interaction_count
          /\ StoreShortTermReturns(p) =>
                /\ ret'.op = "store_short_term" /\ ret'.ok
                /\ (/\ proc[p].memory_data.interaction_count >= short_to_long_threshold
                    /\ proc[p].memory_data.lead_id # "")
                   => /\ proc[p].pc = "con_store"
                      /\ call_writes'[proc[p].conversation_id]
                             = call_writes[proc[p].conversation_id] + 1]_vars

\* two calls on an entry with count threshold - 1 have both returned, the
\* entry holds the threshold, and each call made its consolidation write
C33_Witness ==
    /\ calls = 2
    /\ sst_calls["c1"] = 2
    /\ \A p \in Procs : proc[p].pc = "idle"
    /\ ret.op = "store_short_term" /\ ret.ok
    /\ ShortTermGet("c1", now) # NoneVal
    /\ TheValue(ShortTermGet("c1", now)).interaction_count = short_to_long_threshold
    /\ call_writes["c1"] = 2

(***************************************************************************)
(* Properties of repeated consolidation (SpecRepeat).                      *)
(***************************************************************************)
\* the history of the profile of the lead after the step is the history `read`
\* followed by one record of conversation c with the given count
AppendsRecord(read, lead_id, c, interaction_count) ==
    LET history == IF read = NoneVal THEN <<>> ELSE TheValue(read).interaction_history
    IN /\ ProfileAfter(lead_id) # NoneVal
       /\ LET after == TheValue(ProfileAfter(lead_id)).interaction_history
          IN /\ Len(after) = Len(history) + 1
             /\ SubSeq(after, 1, Len(history)) = history
             /\ after[Len(after)].conversation_id = c
             /\ after[Len(after)].interaction_count = interaction_count

\* the live entries with a lead at or over the threshold, after the step
FrequentAfter ==
    {c \in ConversationIds :
        LET e == IF redis_client' THEN RedisGetResult(redis_db', c, now')
                 ELSE MemGetResult(memory_store', c, now')
        IN /\ e # NoneVal
           /\ TheValue(e).interaction_count >= short_to_long_threshold
           /\ TheValue(e).lead_id # ""}

\* C34: every store_short_term call on a lead that computes a count at or
\* over the threshold, at the threshold or past it, returns through a profile
\* write that appends one record of the conversation to the history it read;
\* every maintenance cycle takes up each live conversation at or over the
\* threshold, ends only when none is left, and appends one record for each
\* one it takes up, whether or not the history holds one already
C34_ConsolidationRepeats ==
    [][/\ \A p \in Procs :
              (/\ StoreShortTermReturns(p)
               /\ proc[p].memory_data.interaction_count >= short_to_long_threshold
               /\ proc[p].memory_data.lead_id # "")
              => /\ proc[p].pc = "con_store"
                 /\ AppendsRecord(proc[p].existing_long_term, proc[p].memory_data.lead_id,
                                  proc[p].conversation_id,
                                  proc[p].memory_data.interaction_count)
       /\ CycleStarts => maint'.pending = FrequentAfter
       /\ (maint.pc = "consolidate" /\ maint'.pc = "sleep") => maint.pending = {}
       /\ (maint.pc = "consolidate" /\ maint'.pc = "write")
              => /\ maint'.conversation_id \in maint.pending
                 /\ maint'.pending = maint.pending \ {maint'.conversation_id}
       /\ MaintenanceWrites
              => /\ maint'.pending = maint.pending
                 /\ AppendsRecord(maint.existing_long_term,
                                  maint.active[maint.conversation_id].lead_id,
                                  maint.conversation_id,
                                  maint.active[maint.conversation_id].interaction_count)]_vars

\* the history of lead L1 holds a record of c1 written at the threshold, one
\* written past it, and two records of c1 that are equal: a maintenance cycle
\* repeated the record of a call
C34_Witness ==
    /\ LongTermGet("L1") # NoneVal
    /\ LET history == TheValue(LongTermGet("L1")).interaction_history
       IN /\ \A i \in DOMAIN history : history[i].conversation_id = "c1"
          /\ \E i \in DOMAIN history :
                 history[i].interaction_count = short_to_long_threshold
          /\ \E i \in DOMAIN history :
                 history[i].interaction_count > short_to_long_threshold
          /\ \E i, j \in DOMAIN history : i < j /\ history[i] = history[j]
    /\ sst_calls["c1"] = 2
    /\ maint.pc = "sleep" /\ maint.wake_at > 0

(***************************************************************************)
(* Properties of the traversal distances (SpecTraversal).                  *)
(***************************************************************************)
\* the edge from m to n exists and the filter allows its type
AllowedEdge(g, types, m, n) ==
    /\ <<m, n>> \in DOMAIN g.attr
    /\ (types = {} \/ DictGet(g.attr[<<m, n>>], "type", "related_to") \in types)

RECURSIVE WithinHops(_, _, _, _)
\* the concepts reachable from start in at most k hops along allowed edges
WithinHops(g, types, start, k) ==
    IF k = 0 THEN {start}
    ELSE LET before == WithinHops(g, types, start, k - 1)
         IN before \cup {n \in SeqToSet(g.nodes) : \E m \in before : AllowedEdge(g, types, m, n)}

\* the least number of hops, of at most d, in which n is reached
MinHops(g, types, start, n, d) ==
    CHOOSE k \in 0..d :
        /\ n \in WithinHops(g, types, start, k)
        /\ \A j \in 0..(k - 1) : n \notin WithinHops(g, types, start, j)

SweepReturns == ret'.op = "cleanup_expired" /\ ret' # ret /\ ~redis_client

\* the keys whose ttl has run out before the step
ElapsedKeys ==
    {k \in DOMAIN memory_store :
        /\ memory_store[k].expires_at # NoneVal
        /\ now > TheValue(memory_store[k].expires_at)}

\* C36: after cleanup_expired on the in-process backing no entry whose ttl
\* has run out is left, every other entry is as it was, and the call returns
\* the number of entries it removed
C36_SweepRemovesExpired ==
    [][SweepReturns =>
          /\ DOMAIN memory_store' = DOMAIN memory_store \ ElapsedKeys
          /\ \A k \in DOMAIN memory_store' : memory_store'[k] = memory_store[k]
          /\ ret'.result = Some(Cardinality(ElapsedKeys))]_vars

\* the part of C36 on the entries alone
SweepEntries ==
    [][SweepReturns =>
          /\ DOMAIN memory_store' = DOMAIN memory_store \ ElapsedKeys
          /\ \A k \in DOMAIN memory_store' : memory_store'[k] = memory_store[k]]_vars

(***************************************************************************)
(* Properties of update_short_term (Spec).                                 *)
(***************************************************************************)
\* what get(c) returns after the step
EntryAfter(c) ==
    IF redis_client' THEN RedisGetResult(redis_db', c, now')
    ELSE MemGetResult(memory_store', c, now')

\* update_short_term(c, ...) is called in this step and finds no live entry
UpdateFindsNone(c) ==
    /\ calls' = calls + 1
    /\ proc' = proc
    /\ ret'.op = "update_short_term"
    /\ ret'.conversation_id = c

\* update_short_term(c, ...) of task p is called in this step and finds an entry
UpdateFindsEntry(p, c) ==
    /\ calls' = calls + 1
    /\ proc[p].pc = "idle"
    /\ proc'[p].pc = "ust_store"
    /\ proc'[p].conversation_id = c

\* `after` is the entry `read` with the updates merged into its context key
\* by key, one more interaction, and the same conversation and lead
MergedEntry(read, updates, after) ==
    /\ DOMAIN after.context = DOMAIN read.context \cup DOMAIN updates
    /\ \A k \in DOMAIN updates : after.context[k] = updates[k]
    /\ \A k \in DOMAIN read.context \ DOMAIN updates : after.context[k] = read.context[k]
    /\ after.interaction_count = read.interaction_count + 1
    /\ after.conversation_id = read.conversation_id
    /\ after.lead_id = read.lead_id

\* C37: update_short_term on a conversation with no live entry (absent or
\* expired) returns false, and after it no conversation has a live entry or a
\* count it did not have before, no profile is written and no write is in
\* progress; on a conversation with a live entry it writes the entry it read
\* with the updates merged into the context key by key, interaction_count one
\* higher, and conversation_id and lead_id as they were
C37_UpdateShortTerm ==
    [][\A c \in CallConversationIds :
          /\ ShortTermGet(c, now) = NoneVal
                => /\ \A p \in Procs : ~UpdateFindsEntry(p, c)
                   /\ UpdateFindsNone(c)
                         => /\ ~ret'.ok
                            /\ \A k \in ConversationIds : EntryAfter(k) = ShortTermGet(k, now)
                            /\ customer_profiles' = customer_profiles
                            /\ lt_memory_store' = lt_memory_store
          /\ ShortTermGet(c, now) # NoneVal
                => /\ ~UpdateFindsNone(c)
                   /\ \A p \in Procs :
                          UpdateFindsEntry(p, c)
                             => \E u \in ContextUpdates :
                                    MergedEntry(TheValue(ShortTermGet(c, now)), u,
                                                proc'[p].existing)
          /\ \A p \in Procs :
                 (UpdateShortTermReturns(p) /\ proc[p].conversation_id = c)
                    => /\ ret'.op = "update_short_term" /\ ret'.ok
                       /\ EntryAfter(c) = Some(proc[p].existing)
                       /\ customer_profiles' = customer_profiles
                       /\ lt_memory_store' = lt_memory_store]_vars

\* an update_short_term has returned true for an entry that store_short_term
\* wrote with the sms context: interests was replaced, the other keys kept
C37_Witness ==
    /\ ret.op = "update_short_term" /\ ret.ok
    /\ ShortTermGet("c1", now) # NoneVal
    /\ LET e == TheValue(ShortTermGet("c1", now))
       IN /\ e.context = [preferred_channel |-> "sms", interests |-> "ml",
                          lead_source |-> "web"]
          /\ e.interaction_count = 2
          /\ e.lead_id = "L1"

\* an update_short_term has returned false for an entry whose ttl has run out
UpdateOfExpired ==
    /\ ret.op = "update_short_term" /\ ~ret.ok
    /\ ret.at > 0
    /\ sst_calls["c1"] > 0

(***************************************************************************)
(* Properties of the delivery order (SpecTransport).                       *)
(***************************************************************************)
\* the messages passed to send_text of the websocket are in the order in
\* which send_to_agent received them: messages are numbered as they arrive
InSubmissionOrder(w) ==
    \A i, j \in 1..Len(ws_sent[w]) : i < j => ws_sent[w][i].id < ws_sent[w][j].id

\* C38: the messages written to a connection are in the order in which they
\* were given to send_to_agent, also those sent while connect_agent is still
\* delivering the queue, and a message queued for an agent is in its queue,
\* was written to a connection or is still ahead of a delivering connect_agent
C38_DeliveryOrder ==
    /\ \A w \in DOMAIN ws_sent : InSubmissionOrder(w)
    /\ \A a \in Agents : \A i \in 1..Len(queued[a]) :
           \/ a \in DOMAIN message_queue /\ Holds(message_queue[a], queued[a][i])
           \/ \E w \in DOMAIN ws_sent : Holds(ws_sent[w], queued[a][i])
           \/ ToBeDelivered(a, queued[a][i])

\* the part of C38 on the order alone
DeliveryOrderOnly == \A w \in DOMAIN ws_sent : InSubmissionOrder(w)

============================================================================
